---- MODULE Spec2Model ----
(***************************************************************************)
(* Model of the agentic text-to-SQL core of api_t2sql:                     *)
(*   - AgentMemory and SQLAgent          (src/base/agent_core.py)          *)
(*   - RAGSQLPipeline.generate_sql_query (src/base/rag_core.py)            *)
(*   - AgentRunner and AgentOrchestrator                                   *)
(*                     (src/ignore/base_original/agent_runner.py)          *)
(*   - Tool and ToolManager (src/ignore/base_original/tool_manager.py)     *)
(*                                                                         *)
(* Texts (queries, SQL statements, error messages) are sequences of        *)
(* tokens; an f-string is a concatenation.  A Python dict is a record      *)
(* holding exactly the keys the code writes.  An Optional value is <<>>    *)
(* for None and <<v>> for a value v.                                       *)
(***************************************************************************)
EXTENDS Integers, Sequences, FiniteSets, TLC

VARIABLES
    \* ---- AgentRunner fields
    state,              \* AgentRunner.state (RunnerState)
    max_iterations,     \* AgentRunner.max_iterations
    current_iteration,  \* AgentRunner.current_iteration
    execution_log,      \* AgentRunner.execution_log
    \* ---- locals of AgentRunner.run
    pc,                 \* position of the run() call ("idle": no call active)
    iteration,          \* the for-loop variable
    user_query,         \* the (refined) query text
    execute,            \* the execute flag
    iteration_results,  \* results of the attempts of this run
    returned,           \* Optional: the value the last run() returned
    \* ---- SQLAgent fields
    agent_state,        \* SQLAgent.state (AgentState)
    messages,           \* AgentMemory.messages
    max_messages,       \* AgentMemory.max_messages
    context,            \* AgentMemory.context (set of entries)
    execution_history,  \* AgentMemory.execution_history
    \* ---- locals of SQLAgent.execute / generate_sql_query
    thinking,           \* Optional: the analysis text
    rows,               \* metadata rows of the attempt
    sql_query,          \* the generated statement
    validation,         \* Optional: the validation mapping
    result,             \* Optional: rows returned by execute_query
    tables,             \* table names extracted by Metadata Resolution
    attempt_result,     \* Optional: the dict SQLAgent.execute returned
    \* ---- observation of the run (history, not program state)
    events,             \* calls and memory writes made by the current attempt
    attempts,           \* SQLAgent.execute invocations of the current run
    budget,             \* the max_iterations argument of the current run
    stop_seen,          \* stop() was called during the current run
    agent_trace,        \* agent states taken during the current attempt
    runs,               \* run() / direct execute() calls made so far
    added,              \* messages passed to add_message since the last clear
    at_check,           \* what held when the current iteration's check began,
                        \* and the state run() found on entry (until the
                        \* first attempt begins)
    \* ---- one call of a text function of rag_core.py
    raw_text,           \* the raw model output handed to the function
    for_tables,         \* the for_tables argument of extract_json_from_text
    op,                 \* the function applied ("none": not yet called)
    out,                \* Optional: what the call returned
    \* ---- one invocation of a tool by name
    tool_name,          \* the name the caller passes
    kwargs,             \* the names of the keyword arguments passed
    \* ---- what a caller kept from an earlier run()
    held                \* Optional: the failure dict an earlier run() returned

runnerVars == <<state, max_iterations, current_iteration, execution_log>>
runVars    == <<pc, iteration, user_query, execute, iteration_results, returned>>
memVars    == <<messages, max_messages, context, execution_history>>
attVars    == <<thinking, tables, rows, sql_query, validation, result, attempt_result>>
obsVars    == <<events, attempts, budget, stop_seen, agent_trace, runs, added>>
callVars   == <<raw_text, for_tables, op, out, tool_name, kwargs>>
extVars    == <<callVars, held>>
vars == <<runnerVars, runVars, agent_state, memVars, attVars, obsVars, at_check,
          extVars>>

----------------------------------------------------------------------------
\* Bounds of the model
MaxBudget == 2      \* largest max_iterations argument passed to run()
MaxRuns   == 1      \* run() calls per behaviour
MaxSeqRuns == 2     \* run() calls per behaviour, made one after the other
MaxCalls  == 2      \* direct SQLAgent.execute calls per behaviour (agent spec)
MaxCap    == 3      \* largest configured AgentMemory.max_messages (memory spec)
MaxAdds   == 5      \* add_message calls per behaviour (memory spec)

\* Program constants
DefaultMaxIterations == 5
DefaultMaxMessages   == 50

\* ---- RunnerState / AgentState values
READY   == "ready"
RUNNING == "running"
PAUSED  == "paused"
STOPPED == "stopped"

IDLE      == "idle"
THINKING  == "thinking"
EXECUTING == "executing"
COMPLETED == "completed"
ERROR     == "error"

----------------------------------------------------------------------------
\* Inputs: what the callers pass and what the collaborators answer

Queries     == { <<"show customers">> }
\* the max_iterations argument, an Optional: <<n>> for the integer n (the
\* callers of this repository always pass an integer)
BudgetArgs  == { <<n>> : n \in 0..MaxBudget }
Analyses    == { <<"analysis">> }
TableLists  == { <<>>, <<"CUSTOMER">> }
MetadataRows == { <<>>, <<"CUSTOMER.ID">> }
Statements  == { <<"select", "*", "FROM", "CUSTOMER", ";">>,
                 <<"hello">> }
ResultRows  == <<"row1">>

\* str(e) of the exception a collaborator (retriever, LLM, metadata cursor,
\* data-model file) raises when it fails
CollaboratorFault == <<"collaborator unavailable">>

\* What one generation call plus extraction yields: a statement, nothing, or
\* an exception
GenOutcomes == { [raised |-> FALSE, sql |-> s] : s \in Statements \cup { <<>> } }
               \cup { [raised |-> TRUE, sql |-> <<>>] }
\* What the execution collaborator does: no connection configured, an
\* exception, or rows
ExecOutcomes == { "noconn", "raise", "rows" }

----------------------------------------------------------------------------
\* AgentMemory

\* messages[-max_messages:] : Python slice with a negative start
LastSlice(s, n) ==
    IF n = 0 THEN s
    ELSE IF n >= Len(s) THEN s
    ELSE SubSeq(s, Len(s) - n + 1, Len(s))

add_message(msgs, maxm, m) ==
    LET appended == Append(msgs, m)
    IN  IF Len(appended) > maxm THEN LastSlice(appended, maxm) ELSE appended

add_execution(hist, tool, input_data, output, success) ==
    Append(hist, [tool |-> tool, input |-> input_data,
                  output |-> output, success |-> success])

HumanMessage(content) == [type |-> "human", content |-> content]
AIMessage(content)    == [type |-> "ai", content |-> content]

\* SQLAgent.get_memory
get_memory(msgs, hist, ctx) ==
    [message_count |-> Len(msgs),
     execution_history_count |-> Len(hist),
     context |-> ctx,
     last_execution |-> IF hist # <<>> THEN <<hist[Len(hist)]>> ELSE <<>>]

----------------------------------------------------------------------------
\* SQLAgent.validate_sql on a statement given as its tokens

Upper(tok) ==
    CASE tok = "select" -> "SELECT"
      [] tok = "from"   -> "FROM"
      [] tok = "a"      -> "A"
      [] tok = "d"      -> "D"
      [] tok = "date_"  -> "DATE_"
      [] tok = "hello"  -> "HELLO"
      [] tok = "null"   -> "NULL"
      [] tok = "note"   -> "NOTE"
      [] OTHER          -> tok

Count(sql, kw) == Cardinality({ i \in 1..Len(sql) : Upper(sql[i]) = kw })

StatementKeywords == { "SELECT", "INSERT", "UPDATE", "DELETE" }

\* Mutant of validate_sql: a SELECT/FROM mismatch is fatal
validate_sqlStrict(sql) ==
    LET w1 == IF \A i \in 1..Len(sql) : sql[i] # ";"
              THEN <<"Query missing semicolon">> ELSE <<>>
        nokw == \A kw \in StatementKeywords : Count(sql, kw) = 0
        mism == Count(sql, "SELECT") # Count(sql, "FROM")
        w2 == IF mism THEN <<"Mismatched SELECT and FROM clauses">> ELSE <<>>
    IN  [syntax_valid |-> ~nokw /\ ~mism,
         issues   |-> IF nokw THEN <<"No valid SQL statement found">> ELSE <<>>,
         warnings |-> w1 \o w2]

validate_sql(sql) ==
    LET w1 == IF \A i \in 1..Len(sql) : sql[i] # ";"
              THEN <<"Query missing semicolon">> ELSE <<>>
        nokw == \A kw \in StatementKeywords : Count(sql, kw) = 0
        w2 == IF Count(sql, "SELECT") # Count(sql, "FROM")
              THEN <<"Mismatched SELECT and FROM clauses">> ELSE <<>>
    IN  [syntax_valid |-> ~nokw,
         issues   |-> IF nokw THEN <<"No valid SQL statement found">> ELSE <<>>,
         warnings |-> w1 \o w2]

----------------------------------------------------------------------------
\* Result dictionaries

GenerationFailed == <<"Could not generate SQL query">>
BudgetExhausted  == <<"Could not generate valid SQL after multiple attempts">>

\* the failure dict of SQLAgent.execute
AgentFailure(err, q) == [success |-> FALSE, error |-> err, user_query |-> q]

\* the success dict of SQLAgent.execute
AgentSuccess(sql, val, res, th, ex) ==
    [success |-> TRUE, sql |-> sql, validation |-> val,
     result |-> IF ex THEN res ELSE <<>>, thinking |-> th, executed |-> ex]

\* AgentRunner._refine_query
_refine_query(original_query, error) ==
    original_query \o <<"(Note: Previous attempt failed with:">> \o error
                   \o <<". Please adjust.)">>

\* AgentRunner._format_final_result, for a non-empty list whose last element
\* is a success dict (the only lists run() passes)
_format_final_result(results, ast, mem) ==
    LET best_result == results[Len(results)]
    IN  [success |-> TRUE,
         sql |-> best_result.sql,
         validation |-> best_result.validation,
         result |-> best_result.result,
         thinking |-> best_result.thinking,
         executed |-> best_result.executed,
         iterations |-> Len(results),
         agent_state |-> ast,
         agent_memory |-> mem]

\* Mutant of RunFailure: the failure dict lacks its error string
RunFailureNoError(results, log) ==
    [success |-> FALSE, iterations |-> Len(results), logs |-> log]

\* the failure dict run() returns after the loop
RunFailure(results, log) ==
    [success |-> FALSE, error |-> BudgetExhausted,
     iterations |-> Len(results), logs |-> log]

\* at_check outside the two comparisons of an iteration's state check
NoCheck == [blocked |-> FALSE, stop_seen |-> FALSE, entry |-> "none"]

\* "if max_iterations:" : None and 0 are falsy
Truthy(n) == n # <<>> /\ n[1] # 0

\* default of the retry_count parameter of generate_sql_query, the value
\* SQLAgent.execute calls it with
retry_count == 0

----------------------------------------------------------------------------
\* Initial state: AgentOrchestrator.__init__

Init ==
    /\ state = READY
    /\ max_iterations = DefaultMaxIterations
    /\ current_iteration = 0
    /\ execution_log = <<>>
    /\ pc = "idle"
    /\ iteration = 0
    /\ user_query = <<>>
    /\ execute = FALSE
    /\ iteration_results = <<>>
    /\ returned = <<>>
    /\ agent_state = IDLE
    /\ messages = <<>>
    /\ max_messages = DefaultMaxMessages
    /\ context = {}
    /\ execution_history = <<>>
    /\ thinking = <<>>
    /\ tables = <<>>
    /\ rows = <<>>
    /\ sql_query = <<>>
    /\ validation = <<>>
    /\ result = <<>>
    /\ attempt_result = <<>>
    /\ events = <<>>
    /\ attempts = 0
    /\ budget = <<>>
    /\ stop_seen = FALSE
    /\ agent_trace = <<>>
    /\ runs = 0
    /\ added = <<>>
    /\ at_check = NoCheck
    /\ raw_text = <<>>
    /\ for_tables = FALSE
    /\ op = "none"
    /\ out = <<>>
    /\ tool_name = "none"
    /\ kwargs = {}
    /\ held = <<>>

----------------------------------------------------------------------------
\* AgentRunner.run : entry

\* "logs": self.execution_log : the failure dict holds the runner's list
\* itself, so the dict a caller was handed reads as the log reads now
HoldsLog(ret) == ret # <<>> /\ "logs" \in DOMAIN ret[1]

\* Mutant of Aliased: the failure dict holds a snapshot of the log
Snapshot(ret, log) == ret

Aliased(ret, log) ==
    IF HoldsLog(ret) THEN << [ret[1] EXCEPT !.logs = log] >> ELSE ret

\* Mutant of RunEntry: a falsy max_iterations argument restores the default
\* budget instead of leaving the stored one in force
RunEntryDefaultBudget(q, ex, n) ==
    /\ pc = "idle"
    /\ state' = RUNNING
    /\ current_iteration' = 0
    /\ execution_log' = <<>>
    /\ max_iterations' = IF Truthy(n) THEN n[1] ELSE DefaultMaxIterations
    /\ user_query' = q
    /\ execute' = ex
    /\ iteration_results' = <<>>
    /\ iteration' = 0
    /\ returned' = <<>>
    /\ held' = Aliased(IF HoldsLog(returned) THEN returned ELSE held, <<>>)
    /\ pc' = "loop"
    /\ attempts' = 0
    /\ budget' = n
    /\ stop_seen' = FALSE
    /\ runs' = runs + 1
    /\ at_check' = [NoCheck EXCEPT !.entry = state]
    /\ UNCHANGED <<agent_state, memVars, attVars, events, agent_trace, added>>
    /\ UNCHANGED callVars

\* Mutant of RunEntry: a runner found Paused or Stopped stays so on entry
RunEntryKeepsControl(q, ex, n) ==
    /\ pc = "idle"
    /\ state' = IF state = READY THEN RUNNING ELSE state
    /\ current_iteration' = 0
    /\ execution_log' = <<>>
    /\ max_iterations' = IF Truthy(n) THEN n[1] ELSE max_iterations
    /\ user_query' = q
    /\ execute' = ex
    /\ iteration_results' = <<>>
    /\ iteration' = 0
    /\ returned' = <<>>
    /\ held' = Aliased(IF HoldsLog(returned) THEN returned ELSE held, <<>>)
    /\ pc' = "loop"
    /\ attempts' = 0
    /\ budget' = n
    /\ stop_seen' = FALSE
    /\ runs' = runs + 1
    /\ at_check' = [NoCheck EXCEPT !.entry = state]
    /\ UNCHANGED <<agent_state, memVars, attVars, events, agent_trace, added>>
    /\ UNCHANGED callVars

\* self.state = RUNNING, the counters and the log are cleared, a truthy
\* max_iterations argument replaces the stored budget
RunEntry(q, ex, n) ==
    /\ pc = "idle"
    /\ state' = RUNNING
    /\ current_iteration' = 0
    /\ execution_log' = <<>>
    /\ max_iterations' = IF Truthy(n) THEN n[1] ELSE max_iterations
    /\ user_query' = q
    /\ execute' = ex
    /\ iteration_results' = <<>>
    /\ iteration' = 0
    /\ returned' = <<>>
    /\ held' = Aliased(IF HoldsLog(returned) THEN returned ELSE held, <<>>)
    /\ pc' = "loop"
    /\ attempts' = 0
    /\ budget' = n
    /\ stop_seen' = FALSE
    /\ runs' = runs + 1
    /\ at_check' = [NoCheck EXCEPT !.entry = state]
    /\ UNCHANGED <<agent_state, memVars, attVars, events, agent_trace, added>>
    /\ UNCHANGED callVars

Run(q, ex, n) ==
    /\ runs < MaxRuns
    /\ RunEntry(q, ex, n)

\* for iteration in range(self.max_iterations): the range is used up
LoopExhausted ==
    /\ pc = "loop"
    /\ iteration >= max_iterations
    /\ pc' = "exit"
    /\ UNCHANGED <<runnerVars, iteration, user_query, execute, iteration_results,
                   returned, agent_state, memVars, attVars, obsVars>>
    /\ UNCHANGED <<at_check, extVars>>

\* if self.state == RunnerState.STOPPED: break
LoopStopped ==
    /\ pc = "loop"
    /\ iteration < max_iterations
    /\ state = STOPPED
    /\ current_iteration' = iteration + 1
    /\ pc' = "exit"
    /\ UNCHANGED <<state, max_iterations, execution_log, iteration, user_query,
                   execute, iteration_results, returned, agent_state, memVars,
                   attVars, obsVars>>
    /\ UNCHANGED <<at_check, extVars>>

\* the comparison with STOPPED fails: on to the comparison with PAUSED,
\* which reads self.state again
LoopNotStopped ==
    /\ pc = "loop"
    /\ iteration < max_iterations
    /\ state # STOPPED
    /\ current_iteration' = iteration + 1
    /\ pc' = "check_paused"
    /\ UNCHANGED <<state, max_iterations, execution_log, iteration, user_query,
                   execute, iteration_results, returned, agent_state, memVars,
                   attVars, obsVars>>
    /\ at_check' = [blocked |-> state = PAUSED, stop_seen |-> stop_seen,
                    entry |-> at_check.entry]
    /\ UNCHANGED extVars

\* if self.state == RunnerState.PAUSED: continue
LoopPaused ==
    /\ pc = "check_paused"
    /\ state = PAUSED
    /\ iteration' = iteration + 1
    /\ pc' = "loop"
    /\ UNCHANGED <<runnerVars, user_query, execute, iteration_results,
                   returned, agent_state, memVars, attVars, obsVars>>
    /\ at_check' = NoCheck
    /\ UNCHANGED extVars

\* both comparisons fail: self.agent.execute(user_query, execute=execute)
LoopAttempt ==
    /\ pc = "check_paused"
    /\ state # PAUSED
    /\ pc' = "enter"
    /\ attempts' = attempts + 1
    /\ UNCHANGED <<runnerVars, iteration, user_query,
                   execute, iteration_results, returned, agent_state, memVars,
                   attVars, events, budget, stop_seen, agent_trace, runs, added>>
    /\ at_check' = NoCheck
    /\ UNCHANGED extVars

----------------------------------------------------------------------------
\* SQLAgent.execute, one attempt

\* one observed call of the attempt and how it ended: "ok", "empty" (it
\* returned nothing) or "raise"
Ev(call, outcome) == [call |-> call, outcome |-> outcome]

\* SQLAgent.execute returns res, leaving self.state = st
AgentReturns(res, st) ==
    /\ agent_state' = st
    /\ attempt_result' = <<res>>
    /\ agent_trace' = Append(agent_trace, st)
    /\ pc' = "record"

\* Mutant of Catch: the handler builds the failure dict but leaves the agent
\* state as the failing step had it
CatchKeepsState(err) == AgentReturns(AgentFailure(err, user_query), agent_state)

\* except Exception as e: state = ERROR, the failure dict carries str(e)
Catch(err) == AgentReturns(AgentFailure(err, user_query), ERROR)

\* Mutant of GenerateEmpty: the "if not sql_query" check is missing and the
\* attempt goes on with the empty statement
GenerateEmptyUnchecked ==
    /\ pc' = "validate"
    /\ UNCHANGED <<agent_state, attempt_result, agent_trace>>

\* if not sql_query: state = ERROR, return the "Could not generate" dict
GenerateEmpty == AgentReturns(AgentFailure(GenerationFailed, user_query), ERROR)

\* entry of execute: self.state = AgentState.EXECUTING
ExecuteEnter ==
    /\ pc = "enter"
    /\ agent_state' = EXECUTING
    /\ agent_trace' = <<EXECUTING>>
    /\ pc' = "think"
    /\ UNCHANGED <<runnerVars, iteration, user_query, execute, iteration_results,
                   returned, memVars, attVars, events, attempts, budget, stop_seen,
                   runs, added>>
    /\ UNCHANGED <<at_check, extVars>>

\* think(): self.state = THINKING; the query is added to memory
Think ==
    /\ pc = "think"
    /\ agent_state' = THINKING
    /\ agent_trace' = Append(agent_trace, THINKING)
    /\ messages' = add_message(messages, max_messages, HumanMessage(user_query))
    /\ added' = Append(added, HumanMessage(user_query))
    /\ events' = Append(events, Ev("add_message.human", "ok"))
    /\ pc' = "analysis"
    /\ UNCHANGED <<runnerVars, iteration, user_query, execute, iteration_results,
                   returned, max_messages, context, execution_history, attVars,
                   attempts, budget, stop_seen, runs>>
    /\ UNCHANGED <<at_check, extVars>>

\* think(): analysis = self.llm.invoke(thinking_prompt)
ThinkAnalysis ==
    /\ pc = "analysis"
    /\ \/ \E a \in Analyses :
            /\ thinking' = <<a>>
            /\ events' = Append(events, Ev("llm.think", "ok"))
            /\ pc' = "retrieve"
            /\ UNCHANGED <<agent_state, attempt_result, agent_trace>>
       \/ /\ Catch(CollaboratorFault)
          /\ events' = Append(events, Ev("llm.think", "raise"))
          /\ UNCHANGED thinking
    /\ UNCHANGED <<runnerVars, iteration, user_query, execute, iteration_results,
                   returned, memVars, tables, rows, sql_query, validation, result,
                   attempts, budget, stop_seen, runs, added>>
    /\ UNCHANGED <<at_check, extVars>>

\* get_related_table_metadata: docs = self.retriever.invoke(query_text)
ResolveRetrieve ==
    /\ pc = "retrieve"
    /\ \/ /\ pc' = "tables"
          /\ events' = Append(events, Ev("retriever", "ok"))
          /\ UNCHANGED <<agent_state, attempt_result, agent_trace>>
       \/ /\ Catch(CollaboratorFault)
          /\ events' = Append(events, Ev("retriever", "raise"))
    /\ UNCHANGED <<runnerVars, iteration, user_query, execute, iteration_results,
                   returned, memVars, thinking, tables, rows, sql_query, validation,
                   result, attempts, budget, stop_seen, runs, added>>
    /\ UNCHANGED <<at_check, extVars>>

\* get_related_table_metadata: raw = self.llm.invoke(prompt) and the
\* extraction of the table list; an empty list returns [] at once and
\* generate_sql_query then returns ""
ResolveTables ==
    /\ pc = "tables"
    /\ \/ \E t \in TableLists :
            /\ tables' = t
            /\ IF t = <<>>
               THEN /\ GenerateEmpty
                    /\ events' = Append(events, Ev("llm.tables", "empty"))
               ELSE /\ pc' = "fetch"
                    /\ events' = Append(events, Ev("llm.tables", "ok"))
                    /\ UNCHANGED <<agent_state, attempt_result, agent_trace>>
       \/ /\ Catch(CollaboratorFault)
          /\ events' = Append(events, Ev("llm.tables", "raise"))
          /\ UNCHANGED tables
    /\ UNCHANGED <<runnerVars, iteration, user_query, execute, iteration_results,
                   returned, memVars, thinking, rows, sql_query, validation,
                   result, attempts, budget, stop_seen, runs, added>>
    /\ UNCHANGED <<at_check, extVars>>

\* Mutant of ResolveFetch: generate_sql_query goes on to the data model
\* although no rows came back
ResolveFetchGoesOn ==
    /\ pc = "fetch"
    /\ \/ \E r \in MetadataRows :
            /\ rows' = r
            /\ pc' = "load"
            /\ events' = Append(events, Ev("cursor", IF r = <<>> THEN "empty" ELSE "ok"))
            /\ UNCHANGED <<agent_state, attempt_result, agent_trace>>
       \/ /\ Catch(CollaboratorFault)
          /\ events' = Append(events, Ev("cursor", "raise"))
          /\ UNCHANGED rows
    /\ UNCHANGED <<runnerVars, iteration, user_query, execute, iteration_results,
                   returned, memVars, thinking, tables, sql_query, validation,
                   result, attempts, budget, stop_seen, runs, added>>
    /\ UNCHANGED <<at_check, extVars>>

\* get_related_table_metadata: self.cursor.execute(...); fetchall();
\* generate_sql_query returns "" when there are no rows
ResolveFetch ==
    /\ pc = "fetch"
    /\ \/ \E r \in MetadataRows :
            /\ rows' = r
            /\ IF r = <<>>
               THEN /\ GenerateEmpty
                    /\ events' = Append(events, Ev("cursor", "empty"))
               ELSE /\ pc' = "load"
                    /\ events' = Append(events, Ev("cursor", "ok"))
                    /\ UNCHANGED <<agent_state, attempt_result, agent_trace>>
       \/ /\ Catch(CollaboratorFault)
          /\ events' = Append(events, Ev("cursor", "raise"))
          /\ UNCHANGED rows
    /\ UNCHANGED <<runnerVars, iteration, user_query, execute, iteration_results,
                   returned, memVars, thinking, tables, sql_query, validation,
                   result, attempts, budget, stop_seen, runs, added>>
    /\ UNCHANGED <<at_check, extVars>>

\* generate_sql_query: the data-model file is opened and decoded
GenLoad ==
    /\ pc = "load"
    /\ \/ /\ pc' = "try1"
          /\ events' = Append(events, Ev("datamodel", "ok"))
          /\ UNCHANGED <<agent_state, attempt_result, agent_trace>>
       \/ /\ Catch(CollaboratorFault)
          /\ events' = Append(events, Ev("datamodel", "raise"))
    /\ UNCHANGED <<runnerVars, iteration, user_query, execute, iteration_results,
                   returned, memVars, thinking, tables, rows, sql_query, validation,
                   result, attempts, budget, stop_seen, runs, added>>
    /\ UNCHANGED <<at_check, extVars>>

\* one observed generation call, with the statement it yielded
EvSql(call, outcome, sql) == [call |-> call, outcome |-> outcome, sql |-> sql]

\* Mutant of GenTry: a statement recovered from the simplified prompt is
\* dropped and "" is returned
GenTryDropsFallback(at, tag, next) ==
    /\ pc = at
    /\ \E o \in GenOutcomes :
        /\ events' = Append(events, EvSql(tag, IF o.raised THEN "raise"
                                              ELSE IF o.sql = <<>> THEN "empty"
                                              ELSE "ok", o.sql))
        /\ IF ~o.raised /\ o.sql # <<>> /\ at # "try3"
          THEN /\ sql_query' = o.sql
               /\ pc' = "validate"
               /\ UNCHANGED <<agent_state, attempt_result, agent_trace>>
          ELSE /\ UNCHANGED sql_query
               /\ IF next = "none"
                  THEN GenerateEmpty
                  ELSE /\ pc' = next
                       /\ UNCHANGED <<agent_state, attempt_result, agent_trace>>
    /\ UNCHANGED <<runnerVars, iteration, user_query, execute, iteration_results,
                   returned, memVars, thinking, tables, rows, validation, result,
                   attempts, budget, stop_seen, runs, added>>
    /\ UNCHANGED <<at_check, extVars>>

\* One generation call of generate_sql_query at position `at`: a non-empty
\* statement is returned to execute; nothing, or an exception (caught and
\* logged inside generate_sql_query), moves on to `next`, and to return ""
\* when `next` is "none"
GenTry(at, tag, next) ==
    /\ pc = at
    /\ \E o \in GenOutcomes :
        /\ events' = Append(events, EvSql(tag, IF o.raised THEN "raise"
                                              ELSE IF o.sql = <<>> THEN "empty"
                                              ELSE "ok", o.sql))
        /\ IF ~o.raised /\ o.sql # <<>>
          THEN /\ sql_query' = o.sql
               /\ pc' = "validate"
               /\ UNCHANGED <<agent_state, attempt_result, agent_trace>>
          ELSE /\ UNCHANGED sql_query
               /\ IF next = "none"
                  THEN GenerateEmpty
                  ELSE /\ pc' = next
                       /\ UNCHANGED <<agent_state, attempt_result, agent_trace>>
    /\ UNCHANGED <<runnerVars, iteration, user_query, execute, iteration_results,
                   returned, memVars, thinking, tables, rows, validation, result,
                   attempts, budget, stop_seen, runs, added>>
    /\ UNCHANGED <<at_check, extVars>>

\* Try 1: chain = prompt | self.llm | self.parser_output
GenTry1 == GenTry("try1", "llm.chain", "try2")

\* Try 2: self.llm.invoke(prompt) and extract_json_from_text
GenTry2 == GenTry("try2", "llm.direct", IF retry_count < 1 THEN "try3" ELSE "none")

\* Try 3: the simplified prompt
GenTry3 == GenTry("try3", "llm.simple", "none")

\* Mutant of ExecuteValidate: the statement is executed whatever the execute
\* flag says
ExecuteValidateAlwaysRuns ==
    /\ pc = "validate"
    /\ execution_history' = add_execution(execution_history, "generate_sql",
                                          [query |-> user_query], sql_query, TRUE)
    /\ validation' = <<validate_sql(sql_query)>>
    /\ events' = events \o << Ev("add_execution.generate_sql", "ok"),
                              Ev("validate_sql", "ok") >>
    /\ pc' = "run_sql"
    /\ UNCHANGED <<runnerVars, iteration, user_query, execute, iteration_results,
                   returned, agent_state, messages, max_messages, context,
                   thinking, tables, rows, sql_query, result, attempt_result,
                   attempts, budget, stop_seen, agent_trace, runs, added>>
    /\ UNCHANGED <<at_check, extVars>>

\* execute, after a non-empty statement: the generate_sql record, validate_sql
ExecuteValidate ==
    /\ pc = "validate"
    /\ execution_history' = add_execution(execution_history, "generate_sql",
                                          [query |-> user_query], sql_query, TRUE)
    /\ validation' = <<validate_sql(sql_query)>>
    /\ events' = events \o << Ev("add_execution.generate_sql", "ok"),
                              Ev("validate_sql", "ok") >>
    /\ pc' = IF execute THEN "run_sql" ELSE "finish"
    /\ UNCHANGED <<runnerVars, iteration, user_query, execute, iteration_results,
                   returned, agent_state, messages, max_messages, context,
                   thinking, tables, rows, sql_query, result, attempt_result,
                   attempts, budget, stop_seen, agent_trace, runs, added>>
    /\ UNCHANGED <<at_check, extVars>>

\* Mutant of execute_query: the exception handler hands back what was fetched
\* before the failure instead of []
execute_queryPartial(o) == IF o = "noconn" THEN <<>> ELSE ResultRows

\* SQLAgent.execute_query: [] without a connection, [] on an exception, the
\* rows otherwise
execute_query(o) == IF o = "rows" THEN ResultRows ELSE <<>>

\* Mutant of ExecuteQuery: an execution that raised is recorded as a failure
ExecuteQueryRecordsFault ==
    /\ pc = "run_sql"
    /\ \E o \in ExecOutcomes :
          /\ result' = <<execute_query(o)>>
          /\ events' = (IF o = "noconn" THEN events
                         ELSE Append(events, Ev("conn.execute",
                                        IF o = "raise" THEN "raise" ELSE "ok")))
                        \o << Ev("add_execution.execute_query", "ok") >>
          /\ execution_history' = add_execution(execution_history, "execute_query",
                                     [sql |-> sql_query], execute_query(o),
                                     o # "raise")
    /\ pc' = "finish"
    /\ UNCHANGED <<runnerVars, iteration, user_query, execute, iteration_results,
                   returned, agent_state, messages, max_messages, context,
                   thinking, tables, rows, sql_query, validation, attempt_result,
                   attempts, budget, stop_seen, agent_trace, runs, added>>
    /\ UNCHANGED <<at_check, extVars>>

\* if execute: result = self.execute_query(sql_query); the execute_query record
ExecuteQuery ==
    /\ pc = "run_sql"
    /\ \E o \in ExecOutcomes :
          /\ result' = <<execute_query(o)>>
          /\ events' = (IF o = "noconn" THEN events
                         ELSE Append(events, Ev("conn.execute",
                                        IF o = "raise" THEN "raise" ELSE "ok")))
                        \o << Ev("add_execution.execute_query", "ok") >>
          /\ execution_history' = add_execution(execution_history, "execute_query",
                                     [sql |-> sql_query], execute_query(o), TRUE)
    /\ pc' = "finish"
    /\ UNCHANGED <<runnerVars, iteration, user_query, execute, iteration_results,
                   returned, agent_state, messages, max_messages, context,
                   thinking, tables, rows, sql_query, validation, attempt_result,
                   attempts, budget, stop_seen, agent_trace, runs, added>>
    /\ UNCHANGED <<at_check, extVars>>

\* Mutant of ExecuteFinish: a statement that failed validation ends the
\* attempt as a failure
ExecuteFinishRejectsInvalid ==
    /\ pc = "finish"
    /\ IF validation[1].syntax_valid
       THEN /\ messages' = add_message(messages, max_messages,
                                       AIMessage(<<"SQL Query:">> \o sql_query))
            /\ added' = Append(added, AIMessage(<<"SQL Query:">> \o sql_query))
            /\ events' = Append(events, Ev("add_message.ai", "ok"))
            /\ AgentReturns(AgentSuccess(sql_query, validation[1], result,
                                         thinking[1], execute), COMPLETED)
       ELSE /\ AgentReturns(AgentFailure(validation[1].issues, user_query), ERROR)
            /\ UNCHANGED <<messages, added, events>>
    /\ UNCHANGED <<runnerVars, iteration, user_query, execute, iteration_results,
                   returned, max_messages, context, execution_history, thinking,
                   tables, rows, sql_query, validation, result, attempts,
                   budget, stop_seen, runs>>
    /\ UNCHANGED <<at_check, extVars>>

\* the AI turn is added to memory, self.state = COMPLETED, the success dict
ExecuteFinish ==
    /\ pc = "finish"
    /\ messages' = add_message(messages, max_messages,
                               AIMessage(<<"SQL Query:">> \o sql_query))
    /\ added' = Append(added, AIMessage(<<"SQL Query:">> \o sql_query))
    /\ events' = Append(events, Ev("add_message.ai", "ok"))
    /\ AgentReturns(AgentSuccess(sql_query, validation[1], result,
                                 thinking[1], execute), COMPLETED)
    /\ UNCHANGED <<runnerVars, iteration, user_query, execute, iteration_results,
                   returned, max_messages, context, execution_history, thinking,
                   tables, rows, sql_query, validation, result, attempts,
                   budget, stop_seen, runs>>
    /\ UNCHANGED <<at_check, extVars>>

----------------------------------------------------------------------------
\* AgentRunner.run : after the attempt, and after the loop

\* the locals of the finished execute call are gone
AttemptOver ==
    /\ thinking' = <<>>
    /\ tables' = <<>>
    /\ rows' = <<>>
    /\ sql_query' = <<>>
    /\ validation' = <<>>
    /\ result' = <<>>
    /\ attempt_result' = <<>>
    /\ events' = <<>>
    /\ agent_trace' = <<>>

\* result.get("success") of what the attempt handed back
Succeeded(r) == "success" \in DOMAIN r /\ r.success

\* the attempt ended in an exception that reached run()
IsException(r) == "exception" \in DOMAIN r

\* the entry run() appends to self.execution_log
LogEntry(r) ==
    [iteration |-> current_iteration,
     status |-> IF r.success THEN "success" ELSE "failed",
     result |-> r]

\* the entry of run()'s own except branch
ErrorEntry(r) ==
    [iteration |-> current_iteration, status |-> "error", error |-> r.exception]

\* Mutant of RunSuccess: the successful attempt is recorded and the loop is
\* left by a break, the result being picked after the loop
RunSuccessBreaks ==
    /\ pc = "record"
    /\ Succeeded(attempt_result[1])
    /\ iteration_results' = Append(iteration_results, attempt_result[1])
    /\ execution_log' = Append(execution_log, LogEntry(attempt_result[1]))
    /\ held' = Aliased(held, execution_log')
    /\ pc' = "exit"
    /\ AttemptOver
    /\ UNCHANGED <<state, max_iterations, current_iteration, iteration, user_query,
                   execute, returned, agent_state, memVars, attempts, budget,
                   stop_seen, runs, added>>
    /\ UNCHANGED <<at_check, callVars>>

\* Mutant of RunSuccess: a success is recorded but the loop goes on
\* (best-of-N instead of first-success)
RunSuccessBestOfN ==
    /\ pc = "record"
    /\ Succeeded(attempt_result[1])
    /\ iteration_results' = Append(iteration_results, attempt_result[1])
    /\ execution_log' = Append(execution_log, LogEntry(attempt_result[1]))
    /\ iteration' = iteration + 1
    /\ pc' = "loop"
    /\ AttemptOver
    /\ UNCHANGED <<state, max_iterations, current_iteration, user_query, execute,
                   returned, agent_state, memVars, attempts, budget, stop_seen,
                   runs, added>>
    /\ UNCHANGED <<at_check, extVars>>

\* if result.get("success"): state = READY; return _format_final_result(...)
RunSuccess ==
    /\ pc = "record"
    /\ Succeeded(attempt_result[1])
    /\ iteration_results' = Append(iteration_results, attempt_result[1])
    /\ execution_log' = Append(execution_log, LogEntry(attempt_result[1]))
    /\ held' = Aliased(held, execution_log')
    /\ state' = READY
    /\ returned' = <<_format_final_result(iteration_results', agent_state,
                        get_memory(messages, execution_history, context))>>
    /\ pc' = "idle"
    /\ AttemptOver
    /\ UNCHANGED <<max_iterations, current_iteration, iteration, user_query,
                   execute, agent_state, memVars, attempts, budget, stop_seen,
                   runs, added>>
    /\ UNCHANGED <<at_check, callVars>>

\* Mutant of RunFailed: a failed attempt is kept in iteration_results but
\* not written to the iteration log
RunFailedUnlogged ==
    /\ pc = "record"
    /\ ~Succeeded(attempt_result[1])
    /\ iteration_results' = Append(iteration_results, attempt_result[1])
    /\ user_query' = IF iteration < max_iterations - 1
                     THEN _refine_query(user_query, attempt_result[1].error)
                     ELSE user_query
    /\ iteration' = iteration + 1
    /\ pc' = "loop"
    /\ AttemptOver
    /\ UNCHANGED <<runnerVars, execute, returned, agent_state, memVars, attempts,
                   budget, stop_seen, runs, added>>
    /\ UNCHANGED <<at_check, extVars>>

\* the attempt failed: the result is logged and the query refined if
\* iterations remain; an exception is logged by the except branch; then the
\* next iteration
RunFailed ==
    /\ pc = "record"
    /\ ~Succeeded(attempt_result[1])
    /\ IF IsException(attempt_result[1])
       THEN /\ execution_log' = Append(execution_log, ErrorEntry(attempt_result[1]))
            /\ UNCHANGED <<iteration_results, user_query>>
       ELSE /\ iteration_results' = Append(iteration_results, attempt_result[1])
            /\ execution_log' = Append(execution_log, LogEntry(attempt_result[1]))
            /\ user_query' = IF iteration < max_iterations - 1
                             THEN _refine_query(user_query, attempt_result[1].error)
                             ELSE user_query
    /\ held' = Aliased(held, execution_log')
    /\ iteration' = iteration + 1
    /\ pc' = "loop"
    /\ AttemptOver
    /\ UNCHANGED <<state, max_iterations, current_iteration, execute, returned,
                   agent_state, memVars, attempts, budget, stop_seen, runs, added>>
    /\ UNCHANGED <<at_check, callVars>>

\* Mutant of RunExit: the runner state is not restored after the loop
RunExitKeepsState ==
    /\ pc = "exit"
    /\ returned' = <<RunFailure(iteration_results, execution_log)>>
    /\ pc' = "idle"
    /\ UNCHANGED <<runnerVars, iteration, user_query, execute, iteration_results,
                   agent_state, memVars, attVars, obsVars>>
    /\ UNCHANGED <<at_check, extVars>>

\* after the loop: state = READY; the last successful result, else the
\* structured failure
RunExit ==
    /\ pc = "exit"
    /\ state' = READY
    /\ LET successful == SelectSeq(iteration_results, Succeeded)
       IN  returned' =
             IF successful # <<>>
             THEN <<_format_final_result(<<successful[Len(successful)]>>, agent_state,
                        get_memory(messages, execution_history, context))>>
             ELSE <<RunFailure(iteration_results, execution_log)>>
    /\ pc' = "idle"
    /\ UNCHANGED <<max_iterations, current_iteration, execution_log, iteration,
                   user_query, execute, iteration_results, agent_state, memVars,
                   attVars, obsVars>>
    /\ UNCHANGED <<at_check, extVars>>

----------------------------------------------------------------------------
\* Control surface, callable from another context at any time

\* AgentRunner.pause
Pause ==
    /\ state' = PAUSED
    /\ UNCHANGED <<max_iterations, current_iteration, execution_log, runVars,
                   agent_state, memVars, attVars, obsVars>>
    /\ UNCHANGED <<at_check, extVars>>

\* AgentRunner.resume
Resume ==
    /\ state = PAUSED
    /\ state' = RUNNING
    /\ UNCHANGED <<max_iterations, current_iteration, execution_log, runVars,
                   agent_state, memVars, attVars, obsVars>>
    /\ at_check' = [at_check EXCEPT !.blocked = FALSE]
    /\ UNCHANGED extVars

\* AgentRunner.stop
Stop ==
    /\ state' = STOPPED
    /\ stop_seen' = (stop_seen \/ pc # "idle")
    /\ UNCHANGED <<max_iterations, current_iteration, execution_log, runVars,
                   agent_state, memVars, attVars, events, attempts, budget,
                   agent_trace, runs, added>>
    /\ UNCHANGED <<at_check, extVars>>

\* AgentMemory.clear
Clear ==
    /\ messages' = <<>>
    /\ context' = {}
    /\ execution_history' = <<>>
    /\ added' = <<>>

\* SQLAgent.reset
AgentReset ==
    /\ Clear
    /\ agent_state' = IDLE

\* AgentOrchestrator.reset
Reset ==
    /\ AgentReset
    /\ execution_log' = <<>>
    /\ returned' = Aliased(returned, <<>>)
    /\ held' = Aliased(held, <<>>)
    /\ UNCHANGED <<state, max_iterations, current_iteration, pc, iteration,
                   user_query, execute, iteration_results, max_messages, attVars, events, attempts, budget, stop_seen,
                   agent_trace, runs>>
    /\ UNCHANGED <<at_check, callVars>>

----------------------------------------------------------------------------
Next ==
    \/ \E q \in Queries, ex \in BOOLEAN, n \in BudgetArgs : Run(q, ex, n)
    \/ LoopExhausted
    \/ LoopStopped
    \/ LoopNotStopped
    \/ LoopPaused
    \/ LoopAttempt
    \/ ExecuteEnter
    \/ Think
    \/ ThinkAnalysis
    \/ ResolveRetrieve
    \/ ResolveTables
    \/ ResolveFetch
    \/ GenLoad
    \/ GenTry1
    \/ GenTry2
    \/ GenTry3
    \/ ExecuteValidate
    \/ ExecuteQuery
    \/ ExecuteFinish
    \/ RunSuccess
    \/ RunFailed
    \/ RunExit
    \/ Pause
    \/ Resume
    \/ Stop
    \/ Reset

Spec == Init /\ [][Next]_vars

----------------------------------------------------------------------------
\* The runner as section 5 of the design describes its use: pause, resume and
\* stop are the only calls made from another context while run() is active

NextLoop ==
    \/ \E q \in Queries, ex \in BOOLEAN, n \in BudgetArgs : Run(q, ex, n)
    \/ LoopExhausted
    \/ LoopStopped
    \/ LoopNotStopped
    \/ LoopPaused
    \/ LoopAttempt
    \/ ExecuteEnter
    \/ Think
    \/ ThinkAnalysis
    \/ ResolveRetrieve
    \/ ResolveTables
    \/ ResolveFetch
    \/ GenLoad
    \/ GenTry1
    \/ GenTry2
    \/ GenTry3
    \/ ExecuteValidate
    \/ ExecuteQuery
    \/ ExecuteFinish
    \/ RunSuccess
    \/ RunFailed
    \/ RunExit
    \/ Pause
    \/ Resume
    \/ Stop

SpecLoop == Init /\ [][NextLoop]_vars

----------------------------------------------------------------------------
\* The agent used on its own: a caller invokes SQLAgent.execute directly,
\* reset() may be requested from another context at any time

AgentCall(q, ex) ==
    /\ pc = "idle"
    /\ runs < MaxCalls
    /\ user_query' = q
    /\ execute' = ex
    /\ returned' = <<>>
    /\ pc' = "enter"
    /\ runs' = runs + 1
    /\ UNCHANGED <<runnerVars, iteration, iteration_results, agent_state, memVars,
                   attVars, events, attempts, budget, stop_seen, agent_trace, added>>
    /\ UNCHANGED <<at_check, extVars>>

\* the caller receives the dict execute returned
AgentDone ==
    /\ pc = "record"
    /\ returned' = attempt_result
    /\ pc' = "idle"
    /\ AttemptOver
    /\ UNCHANGED <<runnerVars, iteration, user_query, execute, iteration_results,
                   agent_state, memVars, attempts, budget, stop_seen, runs, added>>
    /\ UNCHANGED <<at_check, extVars>>

\* SQLAgent.reset called on the agent itself
ResetAgent ==
    /\ AgentReset
    /\ UNCHANGED <<runnerVars, runVars, max_messages, attVars, events, attempts,
                   budget, stop_seen, agent_trace, runs>>
    /\ UNCHANGED <<at_check, extVars>>

NextAgent ==
    \/ \E q \in Queries, ex \in BOOLEAN : AgentCall(q, ex)
    \/ ExecuteEnter
    \/ Think
    \/ ThinkAnalysis
    \/ ResolveRetrieve
    \/ ResolveTables
    \/ ResolveFetch
    \/ GenLoad
    \/ GenTry1
    \/ GenTry2
    \/ GenTry3
    \/ ExecuteValidate
    \/ ExecuteQuery
    \/ ExecuteFinish
    \/ AgentDone
    \/ ResetAgent

SpecAgent == Init /\ [][NextAgent]_vars

----------------------------------------------------------------------------
\* AgentMemory on its own, built with any max_messages

MemoryMessages == { HumanMessage(<<"m1">>), AIMessage(<<"m2">>) }

InitMemory ==
    /\ max_messages \in 0..MaxCap
    /\ state = READY
    /\ max_iterations = DefaultMaxIterations
    /\ current_iteration = 0
    /\ execution_log = <<>>
    /\ pc = "idle"
    /\ iteration = 0
    /\ user_query = <<>>
    /\ execute = FALSE
    /\ iteration_results = <<>>
    /\ returned = <<>>
    /\ agent_state = IDLE
    /\ messages = <<>>
    /\ context = {}
    /\ execution_history = <<>>
    /\ thinking = <<>>
    /\ tables = <<>>
    /\ rows = <<>>
    /\ sql_query = <<>>
    /\ validation = <<>>
    /\ result = <<>>
    /\ attempt_result = <<>>
    /\ events = <<>>
    /\ attempts = 0
    /\ budget = <<>>
    /\ stop_seen = FALSE
    /\ agent_trace = <<>>
    /\ runs = 0
    /\ added = <<>>
    /\ at_check = NoCheck
    /\ raw_text = <<>>
    /\ for_tables = FALSE
    /\ op = "none"
    /\ out = <<>>
    /\ tool_name = "none"
    /\ kwargs = {}
    /\ held = <<>>

\* AgentMemory.add_message
AddMessage(m) ==
    /\ Len(added) < MaxAdds
    /\ messages' = add_message(messages, max_messages, m)
    /\ added' = Append(added, m)
    /\ UNCHANGED <<runnerVars, runVars, agent_state, max_messages, context,
                   execution_history, attVars, events, attempts, budget, stop_seen,
                   agent_trace, runs>>
    /\ UNCHANGED <<at_check, extVars>>

\* AgentMemory.clear
ClearMemory ==
    /\ Clear
    /\ UNCHANGED <<runnerVars, runVars, agent_state, max_messages, attVars, events,
                   attempts, budget, stop_seen, agent_trace, runs>>
    /\ UNCHANGED <<at_check, extVars>>

NextMemory ==
    \/ \E m \in MemoryMessages : AddMessage(m)
    \/ ClearMemory

SpecMemory == InitMemory /\ [][NextMemory]_vars

----------------------------------------------------------------------------
\* Raw model output and its decoding (src/base/rag_core.py).  A text is a
\* sequence of atoms; an atom is a run of characters that no function below
\* splits: a quote, a brace, a blank, a keyword, an identifier part.

DQ == "\""
SQ == "'"
SP == " "
FENCE      == "<fence>"         \* three backticks
FENCE_JSON == "<fence>json"     \* three backticks followed by json

TableKey == "danh_sach_bang_lien_quan"
SqlKey   == "cau_lenh_sql_theo_yeu_cau_nghiep_vu"

Numerals == { "1", "123" }

\* atoms made of characters other than [A-Za-z0-9_]
Punctuation == { DQ, SQ, SP, FENCE, FENCE_JSON, "{", "}", "[", "]", ":", ",", ".", "*",
                 "=", ";" }

\* unidecode.unidecode : every character becomes its ASCII transliteration
Ascii(a) ==
    CASE a = "Hà"                        -> "Ha"
      [] a = "danh_sách_bảng_liên_quan"  -> TableKey
      [] OTHER                           -> a

unidecode(text) == [i \in DOMAIN text |-> Ascii(text[i])]

\* str.upper
upper(text) == [i \in DOMAIN text |-> Upper(text[i])]

\* text.replace(old, new) for a one-atom old
replace(text, old, new) == [i \in DOMAIN text |-> IF text[i] = old THEN new ELSE text[i]]

\* text.replace("```json", "").replace("```", "")
remove_fences(text) == SelectSeq(text, LAMBDA a : a \notin { FENCE_JSON, FENCE })

\* str.strip
RECURSIVE lstrip(_)
lstrip(text) ==
    IF text # <<>> /\ text[1] = SP THEN lstrip(Tail(text)) ELSE text

RECURSIVE rstrip(_)
rstrip(text) ==
    IF text # <<>> /\ text[Len(text)] = SP
    THEN rstrip(SubSeq(text, 1, Len(text) - 1)) ELSE text

strip(text) == rstrip(lstrip(text))

\* ---- decoded JSON values: the type tag t, the atoms s of a string or a
\* number, the items of a list, the entries of a mapping
JStr(s)      == [t |-> "str",  s |-> s,    items |-> <<>>, ents |-> <<>>]
JNum(s)      == [t |-> "num",  s |-> s,    items |-> <<>>, ents |-> <<>>]
JNull        == [t |-> "null", s |-> <<>>, items |-> <<>>, ents |-> <<>>]
JList(items) == [t |-> "list", s |-> <<>>, items |-> items, ents |-> <<>>]
JDict(ents)  == [t |-> "dict", s |-> <<>>, items |-> <<>>, ents |-> ents]

\* {} and ""
EmptyDict   == JDict(<<>>)
EmptyString == JStr(<<>>)

\* ---- json.loads
\* blanks between the tokens of a document are skipped
RECURSIVE Compact(_, _, _)
Compact(text, i, instr) ==
    IF i > Len(text) THEN <<>>
    ELSE IF text[i] = DQ THEN <<DQ>> \o Compact(text, i + 1, ~instr)
    ELSE IF text[i] = SP /\ ~instr THEN Compact(text, i + 1, instr)
    ELSE <<text[i]>> \o Compact(text, i + 1, instr)

\* the parts of c between its top-level commas
RECURSIVE SplitTop(_, _, _, _, _)
SplitTop(c, i, depth, instr, cur) ==
    IF i > Len(c) THEN <<cur>>
    ELSE LET a == c[i]
         IN  IF a = DQ THEN SplitTop(c, i + 1, depth, ~instr, Append(cur, a))
             ELSE IF instr THEN SplitTop(c, i + 1, depth, instr, Append(cur, a))
             ELSE IF a \in { "{", "[" }
                  THEN SplitTop(c, i + 1, depth + 1, instr, Append(cur, a))
             ELSE IF a \in { "}", "]" }
                  THEN SplitTop(c, i + 1, depth - 1, instr, Append(cur, a))
             ELSE IF a = "," /\ depth = 0
                  THEN <<cur>> \o SplitTop(c, i + 1, 0, FALSE, <<>>)
             ELSE SplitTop(c, i + 1, depth, instr, Append(cur, a))

Parts(c) == IF c = <<>> THEN <<>> ELSE SplitTop(c, 1, 0, FALSE, <<>>)

Inner(c) == SubSeq(c, 2, Len(c) - 1)

IsStrLit(c) ==
    /\ Len(c) >= 2
    /\ c[1] = DQ
    /\ c[Len(c)] = DQ
    /\ \A i \in 2..(Len(c) - 1) : c[i] # DQ

IsScalar(c) ==
    \/ IsStrLit(c)
    \/ Len(c) = 1 /\ c[1] \in Numerals \cup { "null" }

IsList(c) ==
    /\ Len(c) >= 2
    /\ c[1] = "["
    /\ c[Len(c)] = "]"
    /\ \A i \in DOMAIN Parts(Inner(c)) : IsScalar(Parts(Inner(c))[i])

\* the position of the quote that closes the key of an entry, 0 if none
KeyEnd(p) ==
    IF Len(p) >= 2 /\ p[1] = DQ /\ \E k \in 2..Len(p) : p[k] = DQ
    THEN CHOOSE k \in 2..Len(p) : p[k] = DQ /\ \A j \in 2..(k - 1) : p[j] # DQ
    ELSE 0

RECURSIVE IsObject(_)
IsValue(c) == IsScalar(c) \/ IsList(c) \/ IsObject(c)

IsEntry(p) ==
    LET k == KeyEnd(p)
    IN  /\ k > 0
        /\ Len(p) >= k + 2
        /\ p[k + 1] = ":"
        /\ IsValue(SubSeq(p, k + 2, Len(p)))

IsObject(c) ==
    /\ Len(c) >= 2
    /\ c[1] = "{"
    /\ c[Len(c)] = "}"
    /\ \A i \in DOMAIN Parts(Inner(c)) : IsEntry(Parts(Inner(c))[i])

Scalar(c) ==
    IF IsStrLit(c) THEN JStr(Inner(c))
    ELSE IF c[1] = "null" THEN JNull
    ELSE JNum(c)

\* a value that is not a mapping; a nested mapping keeps its atoms in s
Flat(c) ==
    IF IsScalar(c) THEN Scalar(c)
    ELSE IF IsList(c)
         THEN JList([i \in DOMAIN Parts(Inner(c)) |-> Scalar(Parts(Inner(c))[i])])
    ELSE [t |-> "dict", s |-> c, items |-> <<>>, ents |-> <<>>]

Entry(p) ==
    LET k == KeyEnd(p)
        v == Flat(SubSeq(p, k + 2, Len(p)))
    IN  [key |-> SubSeq(p, 2, k - 1), t |-> v.t, s |-> v.s, items |-> v.items]

ValueOf(c) ==
    IF IsObject(c)
    THEN JDict([i \in DOMAIN Parts(Inner(c)) |-> Entry(Parts(Inner(c))[i])])
    ELSE Flat(c)

\* json.loads(text): ok is FALSE when it raises JSONDecodeError
json_loads(text) ==
    LET c == Compact(text, 1, FALSE)
    IN  [ok |-> IsValue(c), val |-> IF IsValue(c) THEN ValueOf(c) ELSE JNull]

\* key in parsed, for a mapping
HasKey(jv, key) == \E i \in DOMAIN jv.ents : jv.ents[i].key = <<key>>

\* parsed.get(key, default), for a mapping
Get(jv, key, default) ==
    IF HasKey(jv, key)
    THEN LET e == jv.ents[CHOOSE i \in DOMAIN jv.ents : jv.ents[i].key = <<key>>]
         IN  [t |-> e.t, s |-> e.s, items |-> e.items, ents |-> <<>>]
    ELSE default

\* the truth value of a decoded value ("if sql:", "if not tables:")
Truth(jv) ==
    CASE jv.t = "str"  -> jv.s # <<>>
      [] jv.t = "num"  -> TRUE
      [] jv.t = "null" -> FALSE
      [] jv.t = "list" -> jv.items # <<>>
      [] jv.t = "dict" -> jv.ents # <<>> \/ Len(jv.s) > 2

\* ---- extract_table_names_from_sql

\* [\w.] : an atom of word characters, or the dot
NameAtom(a) == a \notin Punctuation \/ a = "."

\* the first position from i on that does not hold a blank
RECURSIVE SkipBlanks(_, _)
SkipBlanks(text, i) ==
    IF i <= Len(text) /\ text[i] = SP THEN SkipBlanks(text, i + 1) ELSE i

\* the last position of the run of [\w.] atoms starting at i (i - 1 if none)
RECURSIVE NameEnd(_, _)
NameEnd(text, i) ==
    IF i <= Len(text) /\ NameAtom(text[i]) THEN NameEnd(text, i + 1) ELSE i - 1

\* re.findall(r'FROM\s+([\w.]+)', text, re.IGNORECASE) from position i on
RECURSIVE FindFrom(_, _)
FindFrom(text, i) ==
    IF i > Len(text) THEN <<>>
    ELSE IF Upper(text[i]) = "FROM" /\ i < Len(text) /\ text[i + 1] = SP
         THEN LET j == SkipBlanks(text, i + 1)
                  k == NameEnd(text, j)
              IN  IF k >= j
                  THEN <<SubSeq(text, j, k)>> \o FindFrom(text, k + 1)
                  ELSE FindFrom(text, i + 1)
    ELSE FindFrom(text, i + 1)

\* match.split('.')[-1] if '.' in match else match
RECURSIVE AfterLastDot(_)
AfterLastDot(name) ==
    IF \E i \in DOMAIN name : name[i] = "."
    THEN AfterLastDot(Tail(name))
    ELSE name

ClauseKeywords == { <<"WHERE">>, <<"GROUP">>, <<"ORDER">>, <<"LIMIT">> }

\* the names the function returns; list(set(tables)) fixes no order, so the
\* result is the set of names
extract_table_names_from_sql(sql_text) ==
    LET matches == FindFrom(sql_text, 1)
        table(i) == AfterLastDot(matches[i])
    IN  { upper(table(i)) : i \in { n \in DOMAIN matches :
                                      /\ table(n) # <<>>
                                      /\ upper(table(n)) \notin ClauseKeywords } }

\* a list holding the members of a set of one-atom or many-atom names
RECURSIVE ListOf(_)
ListOf(names) ==
    IF names = {} THEN <<>>
    ELSE LET n == CHOOSE x \in names : TRUE
         IN  <<JStr(n)>> \o ListOf(names \ {n})

\* ---- extract_json_from_text

\* the end of the match of \{[^{}]*(?:\{[^{}]*\}[^{}]*)*\} whose opening brace
\* precedes position j, 0 if there is no match
RECURSIVE ObjectEnd(_, _, _)
ObjectEnd(text, j, depth) ==
    IF j > Len(text) THEN 0
    ELSE IF text[j] = "{"
         THEN IF depth = 1 THEN ObjectEnd(text, j + 1, 2) ELSE 0
    ELSE IF text[j] = "}"
         THEN IF depth = 2 THEN ObjectEnd(text, j + 1, 1) ELSE j
    ELSE ObjectEnd(text, j + 1, depth)

\* re.findall of that pattern from position i on
RECURSIVE FindObjects(_, _)
FindObjects(text, i) ==
    IF i > Len(text) THEN <<>>
    ELSE IF text[i] = "{" /\ ObjectEnd(text, i + 1, 1) > 0
         THEN <<SubSeq(text, i, ObjectEnd(text, i + 1, 1))>>
              \o FindObjects(text, ObjectEnd(text, i + 1, 1) + 1)
    ELSE FindObjects(text, i + 1)

\* a match that decodes to a mapping holding one of the two keys
Accepted(match) ==
    /\ json_loads(match).ok
    /\ \/ HasKey(json_loads(match).val, SqlKey)
       \/ HasKey(json_loads(match).val, TableKey)

\* (?:FROM|WHERE|GROUP BY|ORDER BY|LIMIT|;) matches at position j: the
\* position of its last atom, 0 if it does not match
TerminatorEnd(text, j) ==
    IF Upper(text[j]) \in { "FROM", "WHERE", "LIMIT" } \/ text[j] = ";" THEN j
    ELSE IF /\ text[j] \in { "GROUP", "ORDER" }
            /\ j + 2 <= Len(text)
            /\ text[j + 1] = SP
            /\ text[j + 2] = "BY"
         THEN j + 2
    ELSE 0

\* the end of the lazy .*? : the first terminator from j on, else the end
RECURSIVE StatementEnd(_, _)
StatementEnd(text, j) ==
    IF j > Len(text) THEN Len(text)
    ELSE IF TerminatorEnd(text, j) > 0 THEN TerminatorEnd(text, j)
    ELSE StatementEnd(text, j + 1)

\* re.search(r'(SELECT\s+.*?(?:FROM|WHERE|GROUP BY|ORDER BY|LIMIT|;|$))',
\* text, re.IGNORECASE | re.DOTALL): Optional, the matched group
RECURSIVE SearchSelect(_, _)
SearchSelect(text, i) ==
    IF i > Len(text) THEN <<>>
    ELSE IF Upper(text[i]) = "SELECT" /\ i < Len(text) /\ text[i + 1] = SP
         THEN << SubSeq(text, i, StatementEnd(text, i + 2)) >>
    ELSE SearchSelect(text, i + 1)

\* the first accepted mapping among the matches, the last match first
RECURSIVE LastAccepted(_, _)
LastAccepted(matches, i) ==
    IF i = 0 THEN <<>>
    ELSE IF Accepted(matches[i]) THEN << json_loads(matches[i]).val >>
    ELSE LastAccepted(matches, i - 1)

\* the raw statement of the fifth try, its trailing semicolon removed
RawStatement(group) ==
    LET sql == strip(group)
    IN  IF sql # <<>> /\ sql[Len(sql)] = ";"
        THEN strip(SubSeq(sql, 1, Len(sql) - 1)) ELSE sql

\* the mapping {key: value}
Wrap(key, jv) ==
    JDict(<< [key |-> <<key>>, t |-> jv.t, s |-> jv.s, items |-> jv.items] >>)

\* the text after "Normalize" and "Remove common LLM artifacts"
Normalized(text) == strip(remove_fences(strip(unidecode(text))))

\* Mutant of extract_json_from_text: the heuristics of the fourth and fifth
\* try come before the scan for embedded objects
extract_json_heuristics_first(raw, tables_wanted) ==
    LET text    == Normalized(raw)
        direct  == json_loads(text)
        fixed   == json_loads(replace(text, SQ, DQ))
        matches == FindObjects(text, 1)
        found   == LastAccepted(matches, Len(matches))
        names   == extract_table_names_from_sql(text)
        select  == SearchSelect(text, 1)
    IN  IF raw = <<>> THEN EmptyDict
        ELSE IF direct.ok THEN direct.val
        ELSE IF fixed.ok THEN fixed.val
        ELSE IF /\ tables_wanted
                /\ \E i \in DOMAIN text : Upper(text[i]) = "SELECT"
                /\ names # {}
             THEN Wrap(TableKey, JList(ListOf(names)))
        ELSE IF ~tables_wanted /\ select # <<>>
             THEN Wrap(SqlKey, JStr(RawStatement(select[1])))
        ELSE IF found # <<>> THEN found[1]
        ELSE EmptyDict

extract_json_from_text(raw, tables_wanted) ==
    LET text    == Normalized(raw)
        direct  == json_loads(text)
        fixed   == json_loads(replace(text, SQ, DQ))
        matches == FindObjects(text, 1)
        found   == LastAccepted(matches, Len(matches))
        names   == extract_table_names_from_sql(text)
        select  == SearchSelect(text, 1)
    IN  IF raw = <<>> THEN EmptyDict
        ELSE IF direct.ok THEN direct.val
        ELSE IF fixed.ok THEN fixed.val
        ELSE IF found # <<>> THEN found[1]
        ELSE IF /\ tables_wanted
                /\ \E i \in DOMAIN text : Upper(text[i]) = "SELECT"
                /\ names # {}
             THEN Wrap(TableKey, JList(ListOf(names)))
        ELSE IF ~tables_wanted /\ select # <<>>
             THEN Wrap(SqlKey, JStr(RawStatement(select[1])))
        ELSE EmptyDict

\* ---- JsonOutputParser.parse (langchain_core, not part of this repository):
\* the text, or what follows its first code fence, is decoded after blanks
\* and backticks are stripped from both ends; ok is FALSE when it raises
RECURSIVE lstrip_ticks(_)
lstrip_ticks(text) ==
    IF text # <<>> /\ text[1] \in { SP, FENCE }
    THEN lstrip_ticks(Tail(text)) ELSE text

RECURSIVE rstrip_ticks(_)
rstrip_ticks(text) ==
    IF text # <<>> /\ text[Len(text)] \in { SP, FENCE }
    THEN rstrip_ticks(SubSeq(text, 1, Len(text) - 1)) ELSE text

strip_ticks(text) == rstrip_ticks(lstrip_ticks(text))

after_fence(text) ==
    IF \E i \in DOMAIN text : text[i] \in { FENCE, FENCE_JSON }
    THEN SubSeq(text, 1 + (CHOOSE i \in DOMAIN text :
                              /\ text[i] \in { FENCE, FENCE_JSON }
                              /\ \A j \in 1..(i - 1) : text[j] \notin { FENCE, FENCE_JSON }),
                Len(text))
    ELSE text

parser_parse(text) ==
    LET whole  == json_loads(strip_ticks(text))
        fenced == json_loads(strip_ticks(after_fence(text)))
    IN  IF whole.ok THEN whole ELSE fenced

\* ---- get_related_table_metadata: from the raw model output to the table list

\* Mutant of is_list: the type check on the table payload is missing
is_listUnchecked(jv) == jv.t \in { "list", "str", "dict", "num", "null" }

\* isinstance(tables, list)
is_list(jv) == jv.t = "list"

\* raw.strip().strip('"').strip("'")
RECURSIVE strip_atom(_, _)
strip_atom(text, a) ==
    IF text # <<>> /\ text[1] = a THEN strip_atom(Tail(text), a)
    ELSE IF text # <<>> /\ text[Len(text)] = a
         THEN strip_atom(SubSeq(text, 1, Len(text) - 1), a)
    ELSE text

potential_table(raw) == strip_atom(strip_atom(strip(raw), DQ), SQ)

\* the "just a table name" test of the except branch
IsRawTableName(raw) ==
    /\ raw # <<>>
    /\ \A i \in DOMAIN raw : raw[i] \notin { "{", "[", "SELECT" }
    /\ potential_table(raw) # <<>>
    /\ \A i \in DOMAIN potential_table(raw) : NameAtom(potential_table(raw)[i])
    /\ \E i \in DOMAIN potential_table(raw) : potential_table(raw)[i] # "."

\* what a decoded value contributes as table payload: the value under the
\* key for a mapping, a list itself, nothing otherwise
PayloadOf(jv, str_wrapped) ==
    CASE jv.t = "dict" -> Get(jv, TableKey, JList(<<>>))
      [] jv.t = "list" -> jv
      [] jv.t = "str" /\ str_wrapped -> JList(<<jv>>)
      [] OTHER -> JList(<<>>)

\* the local variable tables when line 188 is reached
table_payload(raw_output) ==
    LET raw    == unidecode(raw_output)
        parsed == parser_parse(raw)
    IN  IF parsed.ok THEN PayloadOf(parsed.val, TRUE)
        ELSE IF IsRawTableName(raw) THEN JList(<<JStr(potential_table(raw))>>)
        ELSE PayloadOf(extract_json_from_text(raw, TRUE), FALSE)

\* Mutant of related_tables: an empty list is not returned early
related_tablesQueriesEmpty(raw_output) ==
    LET payload == table_payload(raw_output)
    IN  IF ~is_list(payload) THEN [queried |-> FALSE, tables |-> JList(<<>>)]
        ELSE [queried |-> TRUE, tables |-> payload]

\* the list the function goes on with: [] is returned without a query when
\* the payload is not a list or is empty
related_tables(raw_output) ==
    LET payload == table_payload(raw_output)
    IN  IF ~is_list(payload) THEN [queried |-> FALSE, tables |-> JList(<<>>)]
        ELSE IF ~Truth(payload) THEN [queried |-> FALSE, tables |-> payload]
        ELSE [queried |-> TRUE, tables |-> payload]

\* ---- generate_sql_query: from the raw model outputs to the statement

\* what a decoded value contributes as statement
StatementOf(jv) ==
    CASE jv.t = "dict" -> Get(jv, SqlKey, EmptyString)
      [] jv.t = "str"  -> jv
      [] OTHER -> EmptyString

\* Try 1: the chain ends in JsonOutputParser; an exception is caught
TryChain(raw) ==
    IF parser_parse(raw).ok THEN StatementOf(parser_parse(raw).val) ELSE EmptyString

\* Try 2 and Try 3: extract_json_from_text
TryExtract(raw) == StatementOf(extract_json_from_text(raw, FALSE))

\* the value returned when the model answers raw1 to the chain, raw2 to the
\* direct call and raw3 to the simplified prompt
generate_sql_query(raw1, raw2, raw3) ==
    IF Truth(TryChain(raw1)) THEN TryChain(raw1)
    ELSE IF Truth(TryExtract(raw2)) THEN TryExtract(raw2)
    ELSE IF retry_count < 1 /\ Truth(TryExtract(raw3)) THEN TryExtract(raw3)
    ELSE EmptyString

\* the copy in src/ignore/base_original/rag_core.py: one call, and the raw
\* text is returned when decoding fails
legacy_generate_sql_query(raw_sql) ==
    LET parsed == parser_parse(raw_sql)
    IN  IF parsed.ok /\ parsed.val.t = "dict"
        THEN Get(parsed.val, SqlKey, EmptyString)
        ELSE JStr(raw_sql)

----------------------------------------------------------------------------
\* The text functions applied to one raw model output each

MaxSqlLen == 4      \* longest enumerated text over SqlAtoms

Quoted(q, body) == <<q>> \o body \o <<q>>

\* {"key": value} written with the quote q
Obj(q, key, value) == <<"{">> \o Quoted(q, <<key>>) \o <<":", SP>> \o value \o <<"}">>

SelectFromA == <<"SELECT", SP, "*", SP, "FROM", SP, "A">>

OutputBodies ==
    { <<>>,
      Obj(DQ, TableKey, <<"[">> \o Quoted(DQ, <<"A">>) \o <<",", SP>>
                               \o Quoted(DQ, <<"B">>) \o <<"]">>),
      Obj(SQ, TableKey, <<"[">> \o Quoted(SQ, <<"A">>) \o <<"]">>),
      Obj(DQ, TableKey, Quoted(DQ, <<"A">>)),
      Obj(DQ, "danh_sách_bảng_liên_quan", <<"[">> \o Quoted(DQ, <<"A">>) \o <<"]">>),
      Obj(DQ, SqlKey, Quoted(DQ, SelectFromA)),
      Obj(SQ, SqlKey, Quoted(SQ, SelectFromA)),
      Obj(DQ, SqlKey, Quoted(DQ, SelectFromA \o <<SP, "WHERE", SP, "X", SP, "=", SP>>
                                             \o Quoted(SQ, <<"Hà">>))),
      Obj(DQ, SqlKey, Quoted(DQ, <<>>)),
      Obj(DQ, SqlKey, <<"[">> \o Quoted(DQ, <<"SELECT", SP, "1">>) \o <<"]">>),
      Obj(DQ, "note", Quoted(DQ, <<"hello">>)),
      Obj(DQ, "note", Obj(DQ, SqlKey, Quoted(DQ, <<"SELECT", SP, "1">>))),
      <<"[">> \o Quoted(DQ, <<"A">>) \o <<"]">>,
      Quoted(DQ, <<"hello">>),
      <<"123">>,
      <<"null">>,
      SelectFromA \o <<".", "B", SP, "WHERE", SP, "X", "=", "1">>,
      <<"SELECT", SP, "date_", "from", SP, "AS", SP, "d", SP, "FROM", SP, "T", ";">>,
      <<"PRIM_PARTY">>,
      <<"hello", SP, "hello">>,
      <<"DELETE", SP, "FROM", SP, "T">>,
      Obj(DQ, TableKey, <<"[", "]">>),
      Obj(DQ, SqlKey, Quoted(DQ, <<"SELECT", SP, "1">>)) \o <<SP, "hello", SP>>
          \o Obj(DQ, TableKey, <<"[">> \o Quoted(DQ, <<"A">>) \o <<"]">>),
      <<"select", SP, "1", ";">> }

\* a body as the model may wrap it: bare, fenced, after or before prose
Wrapped(body) ==
    { body,
      <<FENCE_JSON, SP>> \o body \o <<SP, FENCE>>,
      <<"hello", SP>> \o body,
      body \o <<SP, "hello">> }

SqlAtoms == { "from", SP, "a", ".", "WHERE", "date_" }

RECURSIVE TextsUpTo(_)
TextsUpTo(n) ==
    IF n = 0 THEN { <<>> }
    ELSE TextsUpTo(n - 1)
         \cup { Append(t, a) : t \in { x \in TextsUpTo(n - 1) : Len(x) = n - 1 },
                               a \in SqlAtoms }

RawTexts == UNION { Wrapped(b) : b \in OutputBodies } \cup TextsUpTo(MaxSqlLen)

\* what the model answers to the direct call and to the simplified prompt
RetryTexts == { <<"hello", SP, "hello">>,
                Obj(DQ, SqlKey, Quoted(DQ, <<"SELECT", SP, "1">>)) }

InitExtract ==
    /\ raw_text \in RawTexts
    /\ for_tables \in BOOLEAN
    /\ op = "none"
    /\ out = <<>>
    /\ tool_name = "none"
    /\ kwargs = {}
    /\ held = <<>>
    /\ state = READY
    /\ max_iterations = DefaultMaxIterations
    /\ current_iteration = 0
    /\ execution_log = <<>>
    /\ pc = "idle"
    /\ iteration = 0
    /\ user_query = <<>>
    /\ execute = FALSE
    /\ iteration_results = <<>>
    /\ returned = <<>>
    /\ agent_state = IDLE
    /\ messages = <<>>
    /\ max_messages = DefaultMaxMessages
    /\ context = {}
    /\ execution_history = <<>>
    /\ thinking = <<>>
    /\ tables = <<>>
    /\ rows = <<>>
    /\ sql_query = <<>>
    /\ validation = <<>>
    /\ result = <<>>
    /\ attempt_result = <<>>
    /\ events = <<>>
    /\ attempts = 0
    /\ budget = <<>>
    /\ stop_seen = FALSE
    /\ agent_trace = <<>>
    /\ runs = 0
    /\ added = <<>>
    /\ at_check = NoCheck

\* the function `name` is called and returns `value`
Returns(name, value) ==
    /\ op = "none"
    /\ op' = name
    /\ out' = <<value>>
    /\ UNCHANGED <<raw_text, for_tables, tool_name, kwargs, held, runnerVars, runVars,
                   agent_state, memVars, attVars, obsVars, at_check>>

ExtractJson ==
    Returns("extract_json_from_text", extract_json_from_text(raw_text, for_tables))

ExtractTableNames ==
    Returns("extract_table_names_from_sql", extract_table_names_from_sql(raw_text))

RelatedTables ==
    Returns("get_related_table_metadata", related_tables(raw_text))

GenerateSql ==
    \E raw2, raw3 \in RetryTexts :
        Returns("generate_sql_query",
                [sql |-> generate_sql_query(raw_text, raw2, raw3),
                 raw2 |-> raw2, raw3 |-> raw3])

GenerateSqlLegacy ==
    Returns("legacy_generate_sql_query", legacy_generate_sql_query(raw_text))

\* SQLAgent.validate_sql on the text
ValidateSql ==
    Returns("validate_sql", validate_sql(raw_text))

NextExtract ==
    \/ ExtractJson
    \/ ExtractTableNames
    \/ RelatedTables
    \/ GenerateSql
    \/ GenerateSqlLegacy
    \/ ValidateSql

SpecExtract == InitExtract /\ [][NextExtract]_vars

----------------------------------------------------------------------------
\* Tool registry (src/ignore/base_original/tool_manager.py) and the
\* /agent/tool endpoint (src/ignore/mcp_original/server.py)

\* the tools AgentRunner.setup_tools registers
RegisteredTools ==
    { "generate_sql", "execute_query", "get_metadata", "validate_sql",
      "explain_query" }

\* Tool.required_params, as ToolFactory declares them
required_params(name) ==
    CASE name = "generate_sql"  -> { "query" }
      [] name = "execute_query" -> { "sql" }
      [] name = "get_metadata"  -> { "query_text" }
      [] name = "validate_sql"  -> { "sql" }
      [] name = "explain_query" -> { "sql" }

\* Tool.func, the function setup_tools hands to ToolFactory
func(name) ==
    CASE name = "generate_sql"  -> "generate_sql_query"
      [] name = "execute_query" -> "execute_query"
      [] name = "get_metadata"  -> "get_related_table_metadata"
      [] name = "validate_sql"  -> "validate_sql"
      [] name = "explain_query" -> "explain_query"

\* the parameters of the registered functions (self is bound): positional
\* ones without default, and ones with a default
Signature(f) ==
    CASE f = "generate_sql_query" ->
            [required |-> { "query_text" }, optional |-> { "retry_count" }]
      [] f = "get_related_table_metadata" ->
            [required |-> { "query_text" }, optional |-> {}]
      [] f \in { "execute_query", "validate_sql", "explain_query" } ->
            [required |-> { "sql_query" }, optional |-> {}]

\* self.func(**kwargs): Python binds the keywords to the parameters, and
\* raises TypeError, before the body runs, when a keyword is unknown or a
\* parameter without default is not given
Binds(f, kw) ==
    /\ Signature(f).required \subseteq kw
    /\ kw \subseteq Signature(f).required \cup Signature(f).optional

\* the registered functions that let an exception of a collaborator escape;
\* execute_query and validate_sql catch every exception themselves
MayRaise == { "generate_sql_query", "get_related_table_metadata", "explain_query" }

Raised(type, message) ==
    [raised |-> TRUE, type |-> type, error |-> message, invoked |-> <<>>,
     result |-> <<>>]

\* Mutant of tool_execute: the required parameters are not checked
tool_executeUnchecked(name, kw, fault) ==
    IF ~Binds(func(name), kw)
    THEN Raised("TypeError", <<"unexpected or missing keyword argument">>)
    ELSE IF fault
    THEN [Raised("Exception", CollaboratorFault) EXCEPT !.invoked = <<func(name)>>]
    ELSE [raised |-> FALSE, type |-> "none", error |-> <<>>,
          invoked |-> <<func(name)>>, result |-> <<func(name)>>]

\* Tool.execute(**kwargs) of the tool registered as `name`; fault tells
\* whether the body of the function raises.  invoked holds the function
\* whose body ran, result the function whose return value is returned.
tool_execute(name, kw, fault) ==
    IF required_params(name) \ kw # {}
    THEN Raised("ValueError", <<"Missing required parameters:">>)
    ELSE IF ~Binds(func(name), kw)
    THEN Raised("TypeError", <<"unexpected or missing keyword argument">>)
    ELSE IF fault
    THEN [Raised("Exception", CollaboratorFault) EXCEPT !.invoked = <<func(name)>>]
    ELSE [raised |-> FALSE, type |-> "none", error |-> <<>>,
          invoked |-> <<func(name)>>, result |-> <<func(name)>>]

\* ToolManager.execute_tool
execute_tool(name, kw, fault) ==
    IF name \notin RegisteredTools
    THEN Raised("ValueError", <<"Tool not found:", name>>)
    ELSE tool_execute(name, kw, fault)

\* the response of call_agent_tool when the orchestrator is injected
call_agent_tool(name, kw, fault) ==
    LET r == execute_tool(name, kw, fault)
    IN  IF r.raised
        THEN [success |-> FALSE, tool |-> name, error |-> r.error]
        ELSE [success |-> TRUE, tool |-> name, result |-> r.result]

\* the call gets as far as the body of the registered function
BodyRuns(name, kw) ==
    /\ name \in RegisteredTools
    /\ required_params(name) \subseteq kw
    /\ Binds(func(name), kw)

\* the caller passes a registered or an unknown name and any set of keywords
InitTools ==
    /\ tool_name \in RegisteredTools \cup { "drop_table" }
    /\ kwargs \in SUBSET { "query", "sql", "query_text", "sql_query", "retry_count" }
    /\ held = <<>>
    /\ raw_text = <<>>
    /\ for_tables = FALSE
    /\ op = "none"
    /\ out = <<>>
    /\ state = READY
    /\ max_iterations = DefaultMaxIterations
    /\ current_iteration = 0
    /\ execution_log = <<>>
    /\ pc = "idle"
    /\ iteration = 0
    /\ user_query = <<>>
    /\ execute = FALSE
    /\ iteration_results = <<>>
    /\ returned = <<>>
    /\ agent_state = IDLE
    /\ messages = <<>>
    /\ max_messages = DefaultMaxMessages
    /\ context = {}
    /\ execution_history = <<>>
    /\ thinking = <<>>
    /\ tables = <<>>
    /\ rows = <<>>
    /\ sql_query = <<>>
    /\ validation = <<>>
    /\ result = <<>>
    /\ attempt_result = <<>>
    /\ events = <<>>
    /\ attempts = 0
    /\ budget = <<>>
    /\ stop_seen = FALSE
    /\ agent_trace = <<>>
    /\ runs = 0
    /\ added = <<>>
    /\ at_check = NoCheck

\* the bodies of registered functions that ran during the call
Invocations(r) ==
    IF r.invoked = <<>> THEN <<>>
    ELSE << Ev(r.invoked[1], IF r.raised THEN "raise" ELSE "ok") >>

\* tool_manager.execute_tool(tool_name, **kwargs), called as agent_test.py
\* and agent_example.py do
ExecuteTool ==
    /\ op = "none"
    /\ \E fault \in BOOLEAN :
          /\ fault => BodyRuns(tool_name, kwargs) /\ func(tool_name) \in MayRaise
          /\ op' = "execute_tool"
          /\ out' = << execute_tool(tool_name, kwargs, fault) >>
          /\ events' = Invocations(execute_tool(tool_name, kwargs, fault))
    /\ UNCHANGED <<raw_text, for_tables, tool_name, kwargs, held, runnerVars, runVars,
                   agent_state, memVars, attVars, attempts, budget, stop_seen,
                   agent_trace, runs, added, at_check>>

\* POST /agent/tool
CallAgentTool ==
    /\ op = "none"
    /\ \E fault \in BOOLEAN :
          /\ fault => BodyRuns(tool_name, kwargs) /\ func(tool_name) \in MayRaise
          /\ op' = "call_agent_tool"
          /\ out' = << call_agent_tool(tool_name, kwargs, fault) >>
          /\ events' = Invocations(execute_tool(tool_name, kwargs, fault))
    /\ UNCHANGED <<raw_text, for_tables, tool_name, kwargs, held, runnerVars, runVars,
                   agent_state, memVars, attVars, attempts, budget, stop_seen,
                   agent_trace, runs, added, at_check>>

NextTools ==
    \/ ExecuteTool
    \/ CallAgentTool

SpecTools == InitTools /\ [][NextTools]_vars

----------------------------------------------------------------------------
\* One runner used for several run() calls in a row, each call running to
\* its return before the next one is made; the budget argument may be None

SeqBudgetArgs == { <<>> } \cup BudgetArgs

RunNext(q, ex, n) ==
    /\ runs < MaxSeqRuns
    /\ RunEntry(q, ex, n)

NextRuns ==
    \/ \E q \in Queries, ex \in BOOLEAN, n \in SeqBudgetArgs : RunNext(q, ex, n)
    \/ LoopExhausted
    \/ LoopNotStopped
    \/ LoopAttempt
    \/ ExecuteEnter
    \/ Think
    \/ ThinkAnalysis
    \/ ResolveRetrieve
    \/ ResolveTables
    \/ ResolveFetch
    \/ GenLoad
    \/ GenTry1
    \/ GenTry2
    \/ GenTry3
    \/ ExecuteValidate
    \/ ExecuteQuery
    \/ ExecuteFinish
    \/ RunSuccess
    \/ RunFailed
    \/ RunExit

SpecRuns == Init /\ [][NextRuns]_vars

----------------------------------------------------------------------------
\* The same sequential use with an explicit budget on every call, as
\* AgentOrchestrator.process_query makes it; between two calls the caller
\* may reset the orchestrator and read the log

LogBudgetArgs == { <<n>> : n \in 1..MaxBudget }

\* AgentOrchestrator.reset between two runs
ResetIdle ==
    /\ pc = "idle"
    /\ Reset

\* AgentRunner.get_logs : self.execution_log.copy(), a list of its own
get_logs(log) == log

\* the caller reads the log once, after a run has returned
GetLogs ==
    /\ pc = "idle"
    /\ returned # <<>>
    /\ Returns("get_logs", get_logs(execution_log))

NextLogs ==
    \/ \E q \in Queries, ex \in BOOLEAN, n \in LogBudgetArgs : RunNext(q, ex, n)
    \/ LoopExhausted
    \/ LoopNotStopped
    \/ LoopAttempt
    \/ ExecuteEnter
    \/ Think
    \/ ThinkAnalysis
    \/ ResolveRetrieve
    \/ ResolveTables
    \/ ResolveFetch
    \/ GenLoad
    \/ GenTry1
    \/ GenTry2
    \/ GenTry3
    \/ ExecuteValidate
    \/ ExecuteQuery
    \/ ExecuteFinish
    \/ RunSuccess
    \/ RunFailed
    \/ RunExit
    \/ ResetIdle
    \/ GetLogs

SpecLogs == Init /\ [][NextLogs]_vars

----------------------------------------------------------------------------
\* Properties

Last(s) == s[Len(s)]

\* the n most recent elements of s, in their order
MostRecent(s, n) == IF n >= Len(s) THEN s ELSE SubSeq(s, Len(s) - n + 1, Len(s))

\* C1: a run called with max_iterations = N, N a non-negative integer,
\* invokes SQLAgent.execute at most N times.
C1_AttemptsWithinBudget ==
    budget # <<>> => attempts <= budget[1]

\* C2: as soon as an attempt returns success = true, run returns the
\* formatted result built from that attempt and makes no further attempt;
\* when the first attempt succeeds the returned iterations count is 1.
C2_FirstSuccessReturns ==
    /\ [][ (pc = "record" /\ Succeeded(attempt_result[1]) /\ pc' # "record")
            => /\ pc' = "idle"
               /\ attempts' = attempts
               /\ returned' # <<>>
               /\ returned'[1].success
               /\ returned'[1].sql = attempt_result[1].sql
               /\ returned'[1].validation = attempt_result[1].validation
               /\ returned'[1].result = attempt_result[1].result
               /\ returned'[1].thinking = attempt_result[1].thinking
               /\ returned'[1].executed = attempt_result[1].executed
               /\ (attempts = 1 => returned'[1].iterations = 1) ]_vars
    /\ [][ (returned # <<>> /\ returned[1].success) => attempts' <= attempts ]_vars

C2_Witness ==
    /\ pc = "idle"
    /\ returned # <<>>
    /\ returned[1].success
    /\ returned[1].iterations = 1
    /\ max_iterations > 1

\* C3: after stop() is called while a run is in progress, no new iteration's
\* agent attempt begins in that run, whatever pause()/resume() calls follow.
C3_NoAttemptAfterStop ==
    [][ ~(at_check.stop_seen /\ pc # "enter" /\ pc' = "enter") ]_vars

\* C4: after reset(), from any prior state, AgentState is Idle, RunnerState
\* is Ready and Memory is empty (checked for the resets requested while no
\* run() call is active, so that Running is not among the prior states).
C4_ResetRestoresAll ==
    [][ (Reset /\ pc = "idle")
              => /\ agent_state' = IDLE
                 /\ state' = READY
                 /\ messages' = <<>>
                 /\ context' = {}
                 /\ execution_history' = <<>> ]_vars

\* C5: RunnerState is Ready when the runner is constructed and Ready whenever
\* a run() call returns, whatever the outcome of the run.
C5_ReadyAfterRun ==
    /\ state = READY
    /\ [][ (pc # "idle" /\ pc' = "idle") => state' = READY ]_vars

C5_Witness ==
    /\ pc = "idle"
    /\ returned # <<>>
    /\ ~returned[1].success
    /\ stop_seen
    /\ state = READY

\* C6: the number of messages held never exceeds the configured maximum, and
\* the retained messages are the most recently added ones in their order.
C6_BoundedMostRecent ==
    /\ Len(messages) <= max_messages
    /\ messages = MostRecent(added, max_messages)

\* C7: during one attempt the agent is Thinking while the analysis is made and
\* Executing from right after the analysis until the attempt ends.
ExecutingPcs == { "retrieve", "tables", "fetch", "load", "try1", "try2", "try3",
                  "validate", "run_sql", "finish" }

C7_ThinkingThenExecuting ==
    /\ pc = "analysis" => Last(agent_trace) = THINKING
    /\ pc \in ExecutingPcs => Last(agent_trace) = EXECUTING

\* C8: if the retrieval, generation or metadata collaborator raises during an
\* attempt, execute returns success = false with the collaborator's message
\* as error and the agent state is Error.
CollaboratorCalls == { "llm.think", "retriever", "llm.tables", "cursor",
                       "llm.chain", "llm.direct", "llm.simple" }

C8_FaultCarriesMessage ==
    (/\ pc = "record"
     /\ \E i \in DOMAIN events : /\ events[i].outcome = "raise"
                                 /\ events[i].call \in CollaboratorCalls)
    => /\ ~IsException(attempt_result[1])
       /\ ~attempt_result[1].success
       /\ attempt_result[1].error = CollaboratorFault
       /\ Last(agent_trace) = ERROR

\* C9: run never raises; it returns a result with an explicit success flag,
\* and a false flag comes with a non-empty error string.
C9_StructuredResult ==
    (pc = "idle" /\ returned # <<>>)
    => /\ ~IsException(returned[1])
       /\ "success" \in DOMAIN returned[1]
       /\ ~returned[1].success => /\ "error" \in DOMAIN returned[1]
                                  /\ returned[1].error # <<>>

C9_Witness ==
    /\ pc = "idle"
    /\ returned # <<>>
    /\ ~returned[1].success
    /\ returned[1].logs # <<>>
    /\ returned[1].logs[1].result.error = CollaboratorFault

\* C10: when Metadata Resolution finds no relevant tables, the attempt ends
\* without an exception with success = false, a descriptive error and state
\* Error; nothing is validated or executed, and no AI turn and no
\* ExecutionRecord is appended.
NoRelevantTables ==
    \E i \in DOMAIN events : /\ events[i].outcome = "empty"
                             /\ events[i].call \in { "llm.tables", "cursor" }

C10_NoTablesFails ==
    (pc = "record" /\ NoRelevantTables)
    => /\ ~IsException(attempt_result[1])
       /\ ~attempt_result[1].success
       /\ attempt_result[1].error = GenerationFailed
       /\ attempt_result[1].error # <<>>
       /\ Last(agent_trace) = ERROR
       /\ \A i \in DOMAIN events :
             /\ events[i].outcome # "raise"
             /\ events[i].call \notin { "validate_sql", "conn.execute",
                                        "add_message.ai",
                                        "add_execution.generate_sql",
                                        "add_execution.execute_query" }

C10_Witness ==
    /\ pc = "record"
    /\ NoRelevantTables
    /\ ~attempt_result[1].success
    /\ tables = <<>>

\* C11: when the execute flag is set and the execution collaborator raises,
\* nothing propagates: the attempt's result is the empty row list, the attempt
\* is reported with success = true and the generated statement, and the agent
\* state ends in Completed.
ExecutionRaised ==
    \E i \in DOMAIN events : /\ events[i].call = "conn.execute"
                             /\ events[i].outcome = "raise"

C11_ExecutionFaultKeepsSuccess ==
    (pc = "record" /\ ExecutionRaised)
    => /\ ~IsException(attempt_result[1])
       /\ attempt_result[1].success
       /\ attempt_result[1].executed
       /\ attempt_result[1].result = << <<>> >>
       /\ attempt_result[1].sql = sql_query
       /\ sql_query \in Statements
       /\ Last(agent_trace) = COMPLETED

C11_Witness ==
    /\ pc = "record"
    /\ ExecutionRaised
    /\ execute
    /\ attempt_result[1].success
    /\ attempt_result[1].result = << <<>> >>

\* C12: when every executed attempt of a run fails, run returns success =
\* false together with the iteration log, and that log holds exactly one entry
\* per executed attempt, in iteration order, each with its iteration number
\* and its outcome.
C12_LogPerAttempt ==
    (pc = "idle" /\ returned # <<>> /\ ~returned[1].success)
    => LET logs == returned[1].logs
       IN  /\ Len(logs) = attempts
           /\ returned[1].iterations = attempts
           /\ \A i \in DOMAIN logs :
                 /\ logs[i].iteration \in 1..max_iterations
                 /\ logs[i].iteration >= i
                 /\ logs[i].status = "failed"
                 /\ logs[i].result = iteration_results[i]
                 /\ ~logs[i].result.success
           /\ \A i, j \in DOMAIN logs :
                 i < j => logs[i].iteration < logs[j].iteration

C12_Witness ==
    /\ pc = "idle"
    /\ returned # <<>>
    /\ ~returned[1].success
    /\ attempts = 2
    /\ Len(returned[1].logs) = 2
    /\ returned[1].logs[2].iteration = 2

\* C13: AgentState is never Idle while a think/execute call is in flight on
\* the agent, also when reset() is requested from another context during a
\* run.
InFlightPcs == { "think", "analysis" } \cup ExecutingPcs

C13_NeverIdleInFlight ==
    pc \in InFlightPcs => agent_state # IDLE

\* C14: when an attempt fails after the thinking analysis has completed, the
\* failure result handed to the caller carries the error string and the
\* thinking text produced before the failure.
C14_FailureCarriesThinking ==
    (pc = "record" /\ thinking # <<>> /\ ~attempt_result[1].success)
    => /\ attempt_result[1].error # <<>>
       /\ "thinking" \in DOMAIN attempt_result[1]
       /\ attempt_result[1].thinking = thinking[1]

\* C15: when the primary generation (the chain call and the direct call) yields
\* no non-empty statement and the simplified-prompt fallback yields one,
\* generate_sql_query returns the fallback's statement, and the attempt and
\* the run are reported with success = true and that statement as sql.
EventOf(call) == CHOOSE i \in DOMAIN events : events[i].call = call

FallbackOnly ==
    /\ \E i \in DOMAIN events : events[i].call = "llm.chain" /\ events[i].outcome # "ok"
    /\ \E i \in DOMAIN events : events[i].call = "llm.direct" /\ events[i].outcome # "ok"
    /\ \E i \in DOMAIN events : events[i].call = "llm.simple" /\ events[i].outcome = "ok"

FallbackStatement == events[EventOf("llm.simple")].sql

C15_FallbackStatementWins ==
    /\ [] ( FallbackOnly =>
             /\ FallbackStatement # <<>>
             /\ pc \in { "validate", "run_sql", "finish", "record" }
             /\ sql_query = FallbackStatement
             /\ pc = "record" => /\ attempt_result[1].success
                                 /\ attempt_result[1].sql = FallbackStatement )
    /\ [][ (pc = "record" /\ FallbackOnly /\ pc' # "record")
             => /\ pc' = "idle"
                /\ returned' # <<>>
                /\ returned'[1].success
                /\ returned'[1].sql = FallbackStatement ]_vars

C15_Witness ==
    /\ pc = "record"
    /\ FallbackOnly
    /\ attempt_result[1].success
    /\ attempt_result[1].sql = FallbackStatement
    /\ attempts = 2

\* C16: generate_sql_query never returns a statement that failed extraction:
\* it returns a non-empty statement recovered by one of its extraction
\* attempts, or the empty string; when every attempt fails it returns the
\* empty string and not the raw model text.
C16_NoUnextractedStatement ==
    /\ op = "generate_sql_query"
       => /\ out[1].sql.t = "str"
          /\ out[1].sql # EmptyString
             => out[1].sql \in { TryChain(raw_text), TryExtract(out[1].raw2),
                                 TryExtract(out[1].raw3) }
    /\ op = "legacy_generate_sql_query"
       => /\ out[1].t = "str"
          /\ ~(parser_parse(raw_text).ok /\ parser_parse(raw_text).val.t = "dict")
             => out[1] = EmptyString

\* C17: extract_json_from_text returns, for every input text, a mapping: one
\* holding a recovered payload, or the empty mapping when no strategy
\* recovers one.
C17_MappingOrEmpty ==
    op = "extract_json_from_text"
    => /\ out[1].t = "dict"
       /\ \/ out[1] = EmptyDict
          \/ HasKey(out[1], SqlKey)
          \/ HasKey(out[1], TableKey)

\* C18: a raw text that decodes directly as an object holding the key of the
\* target comes back with that content unchanged.
TargetKey == IF for_tables THEN TableKey ELSE SqlKey

C18_DirectContentUnchanged ==
    (/\ op = "extract_json_from_text"
     /\ json_loads(raw_text).ok
     /\ json_loads(raw_text).val.t = "dict"
     /\ HasKey(json_loads(raw_text).val, TargetKey))
    => /\ out[1].t = "dict"
       /\ Get(out[1], TargetKey, JNull) = Get(json_loads(raw_text).val, TargetKey, JNull)

\* C19: extract_table_names_from_sql yields the set of identifiers that follow
\* a FROM keyword, schema qualifier stripped, clause keywords excluded,
\* upper-cased, without duplicates; so every name it returns is such an
\* identifier.
\* FROM stands as a word of its own at position i
FromKeyword(text, i) ==
    /\ Upper(text[i]) = "FROM"
    /\ i = 1 \/ text[i - 1] \in Punctuation
    /\ i < Len(text)
    /\ text[i + 1] = SP

IdentifierAfter(text, i) ==
    SubSeq(text, SkipBlanks(text, i + 1), NameEnd(text, SkipBlanks(text, i + 1)))

NamesAfterFrom(text) ==
    { upper(AfterLastDot(IdentifierAfter(text, i))) :
        i \in { n \in DOMAIN text :
                  /\ FromKeyword(text, n)
                  /\ AfterLastDot(IdentifierAfter(text, n)) # <<>>
                  /\ upper(AfterLastDot(IdentifierAfter(text, n))) \notin ClauseKeywords } }

C19_NamesAfterFromKeyword ==
    op = "extract_table_names_from_sql" => out[1] \subseteq NamesAfterFrom(raw_text)

----------------------------------------------------------------------------
\* the text holds a statement keyword, in any letter case
HasStatementKeyword(text) ==
    \E i \in DOMAIN text : Upper(text[i]) \in StatementKeywords

\* C21: validate_sql reports syntax_valid = false exactly when the statement
\* holds none of SELECT, INSERT, UPDATE, DELETE in any letter case, and then
\* issues holds the one message for it; a SELECT/FROM count mismatch and a
\* missing semicolon each add one warning and change neither syntax_valid
\* nor issues.
C21_KeywordDecidesValidity ==
    op = "validate_sql" =>
        LET v       == out[1]
            missing == \A i \in DOMAIN raw_text : raw_text[i] # ";"
            mism    == Count(raw_text, "SELECT") # Count(raw_text, "FROM")
        IN  /\ v.syntax_valid = HasStatementKeyword(raw_text)
            /\ v.issues = IF HasStatementKeyword(raw_text) THEN <<>>
                          ELSE <<"No valid SQL statement found">>
            /\ v.warnings =
                  (IF missing THEN <<"Query missing semicolon">> ELSE <<>>)
                  \o (IF mism THEN <<"Mismatched SELECT and FROM clauses">>
                      ELSE <<>>)

\* a statement with a keyword, mismatched counts and no semicolon was
\* validated: two warnings, still valid
C21_Witness ==
    /\ op = "validate_sql"
    /\ HasStatementKeyword(raw_text)
    /\ Count(raw_text, "SELECT") # Count(raw_text, "FROM")
    /\ \A i \in DOMAIN raw_text : raw_text[i] # ";"
    /\ out[1].syntax_valid
    /\ Len(out[1].warnings) = 2

----------------------------------------------------------------------------
\* the call ended in an error the caller can tell from a result: an exception
\* with a message from execute_tool, a success = false response from the
\* endpoint
DefinedError ==
    \/ /\ op = "execute_tool"
       /\ out[1].raised
       /\ out[1].type = "ValueError"
       /\ out[1].error # <<>>
    \/ /\ op = "call_agent_tool"
       /\ ~out[1].success
       /\ out[1].error # <<>>

\* C22: invoking a tool by name with a declared required parameter missing
\* yields a defined error and the underlying function is not invoked;
\* invoking a name that is not registered yields a defined error as well.
C22_MissingParameterIsError ==
    op \in { "execute_tool", "call_agent_tool" } =>
        /\ tool_name \notin RegisteredTools => DefinedError /\ events = <<>>
        /\ tool_name \in RegisteredTools
             /\ ~(required_params(tool_name) \subseteq kwargs)
             => DefinedError /\ events = <<>>

\* a registered tool was invoked without its required parameter, yet with
\* keywords its function would accept
C22_Witness ==
    /\ op = "execute_tool"
    /\ tool_name = "generate_sql"
    /\ kwargs = { "query_text" }
    /\ out[1].raised

\* C23: each of the five registered tools, invoked by name with exactly its
\* declared required parameters, passes the parameter check and reaches the
\* underlying function, whose result is returned unless the function
\* itself fails.
C23_RequiredParametersReachFunction ==
    /\ op \in { "execute_tool", "call_agent_tool" }
    /\ tool_name \in RegisteredTools
    /\ kwargs = required_params(tool_name)
    => /\ events # <<>>
       /\ events[1].call = func(tool_name)
       /\ events[1].outcome = "ok" =>
             IF op = "execute_tool"
             THEN ~out[1].raised /\ out[1].result = <<func(tool_name)>>
             ELSE out[1].success /\ out[1].result = <<func(tool_name)>>

----------------------------------------------------------------------------
\* C24: when an attempt fails and iterations remain, the query of the next
\* attempt is the original query (the one passed to run, which the first
\* attempt was made with) followed by one note naming the failure reason of
\* the attempt just before it; when no iterations remain no refined query
\* is derived.
C24_RefinedFromOriginal ==
    /\ pc = "enter" /\ iteration_results # <<>>
         => user_query = _refine_query(iteration_results[1].user_query,
                                       Last(iteration_results).error)
    /\ pc = "exit" /\ Len(iteration_results) = max_iterations
         /\ max_iterations > 0
         => user_query = iteration_results[max_iterations].user_query

----------------------------------------------------------------------------
\* C25: the runner state is examined once at the top of each iteration: no
\* attempt begins in an iteration whose check found the state Paused and
\* during which it was Paused or Stopped throughout; a Paused check skips the
\* attempt and goes on to the next iteration, so the loop ends after at
\* most max_iterations checks; pause() and stop() leave an attempt in
\* progress where it is.
C25_CheckedOncePerIteration ==
    /\ [][ (pc # "enter" /\ pc' = "enter") => ~at_check.blocked ]_vars
    /\ [][ (pc = "check_paused" /\ state = PAUSED /\ pc' # pc)
             => /\ pc' = "loop"
                /\ iteration' = iteration + 1
                /\ attempts' = attempts ]_vars
    /\ [](pc # "idle" => iteration <= max_iterations)
    /\ [][ (state' # state /\ state' \in { STOPPED, PAUSED })
             => UNCHANGED <<pc, iteration, attVars, attempts>> ]_vars

----------------------------------------------------------------------------
\* the number of calls of the current attempt made to one of `calls`
CallsTo(calls) == Cardinality({ i \in DOMAIN events : events[i].call \in calls })

PrimaryCalls == { "llm.chain", "llm.direct" }

\* C26: within one call of generate_sql_query there is one primary generation
\* attempt and, only if it yields no non-empty statement, one retry with the
\* simplified prompt; no other generation attempt is made, and none with the
\* simplified prompt when retry_count >= 1.
C26_OnePrimaryOneRetry ==
    /\ CallsTo(PrimaryCalls) <= 1
    /\ CallsTo({ "llm.simple" }) <= 1
    /\ CallsTo({ "llm.simple" }) = 1
         => \A i \in DOMAIN events :
                events[i].call \in PrimaryCalls => events[i].outcome # "ok"
    /\ retry_count >= 1 => CallsTo({ "llm.simple" }) = 0

\* Metadata Resolution handed back no rows in the current attempt: the table
\* list was empty, or the metadata store had no row for it
NoRowsResolved ==
    \E i \in DOMAIN events :
        /\ events[i].call \in { "llm.tables", "cursor" }
        /\ events[i].outcome = "empty"

\* C27: when Metadata Resolution returns no rows, generate_sql_query returns
\* empty at once: the data model is not loaded and the model is not asked
\* for SQL in that call.
C27_NoRowsNoGeneration ==
    NoRowsResolved
    => /\ CallsTo({ "datamodel" } \cup PrimaryCalls \cup { "llm.simple" }) = 0
       /\ pc = "record"
       /\ sql_query = <<>>
       /\ attempt_result = << AgentFailure(GenerationFailed, user_query) >>

\* the metadata store was queried for a non-empty table list and had no row
C27_Witness ==
    /\ pc = "record"
    /\ tables # <<>>
    /\ \E i \in DOMAIN events :
          events[i].call = "cursor" /\ events[i].outcome = "empty"

----------------------------------------------------------------------------
\* C28: when the table list extracted from the model output is empty,
\* get_related_table_metadata returns an empty result at once, without
\* querying the metadata store; the store is queried only with a non-empty
\* list.
C28_EmptyListNoQuery ==
    op = "get_related_table_metadata"
    => /\ table_payload(raw_text) = JList(<<>>)
          => ~out[1].queried /\ out[1].tables = JList(<<>>)
       /\ out[1].queried => table_payload(raw_text).items # <<>>

\* the model answered with an empty list under the table key
C28_Witness ==
    /\ op = "get_related_table_metadata"
    /\ parser_parse(raw_text).ok
    /\ parser_parse(raw_text).val.t = "dict"
    /\ HasKey(parser_parse(raw_text).val, TableKey)
    /\ table_payload(raw_text) = JList(<<>>)
    /\ ~out[1].queried

----------------------------------------------------------------------------
\* The strategies of the extractor, each on the normalized text: the Optional
\* payload it recovers
DirectDecode(text) ==
    IF json_loads(text).ok THEN << json_loads(text).val >> ELSE <<>>

QuoteRepairDecode(text) == DirectDecode(replace(text, SQ, DQ))

ObjectScan(text) == LastAccepted(FindObjects(text, 1), Len(FindObjects(text, 1)))

TargetHeuristic(text, tables_wanted) ==
    IF tables_wanted
    THEN IF /\ \E i \in DOMAIN text : Upper(text[i]) = "SELECT"
            /\ extract_table_names_from_sql(text) # {}
         THEN << Wrap(TableKey, JList(ListOf(extract_table_names_from_sql(text)))) >>
         ELSE <<>>
    ELSE IF SearchSelect(text, 1) # <<>>
         THEN << Wrap(SqlKey, JStr(RawStatement(SearchSelect(text, 1)[1]))) >>
         ELSE <<>>

StrategyResults(text, tables_wanted) ==
    << DirectDecode(text), QuoteRepairDecode(text), ObjectScan(text),
       TargetHeuristic(text, tables_wanted) >>

\* the result of the earliest strategy that recovered something, else {}
FirstSuccess(results) ==
    IF \A i \in DOMAIN results : results[i] = <<>> THEN EmptyDict
    ELSE results[CHOOSE i \in DOMAIN results :
                    /\ results[i] # <<>>
                    /\ \A j \in 1..(i - 1) : results[j] = <<>>][1]

\* C29: the extractor applies direct decode, quote-repair decode, embedded
\* object scan and target heuristic in that order and returns what the first
\* succeeding one recovered; no later strategy influences the outcome.
C29_FirstStrategyWins ==
    op = "extract_json_from_text"
    => out[1] = FirstSuccess(StrategyResults(Normalized(raw_text), for_tables))

\* the scan succeeded where the two decodes failed, and the heuristic would
\* have recovered something else
C29_Witness ==
    /\ op = "extract_json_from_text"
    /\ DirectDecode(Normalized(raw_text)) = <<>>
    /\ QuoteRepairDecode(Normalized(raw_text)) = <<>>
    /\ ObjectScan(Normalized(raw_text)) # <<>>
    /\ TargetHeuristic(Normalized(raw_text), for_tables) # <<>>
    /\ TargetHeuristic(Normalized(raw_text), for_tables) # ObjectScan(Normalized(raw_text))
    /\ out = ObjectScan(Normalized(raw_text))

\* the last-occurring embedded object that decodes and holds `key`
LastWithKey(text, key) ==
    LET ms == FindObjects(text, 1)
        ok == { i \in DOMAIN ms : /\ json_loads(ms[i]).ok
                                  /\ HasKey(json_loads(ms[i]).val, key) }
    IN  IF ok = {} THEN <<>>
        ELSE << json_loads(ms[CHOOSE i \in ok : \A j \in ok : j <= i]).val >>

\* C30: in the embedded-object scan the candidates are tried from the last
\* to the first, and the one accepted is the first that holds the key of the
\* requested target; an object holding only the key of the other target is
\* not accepted.
C30_ScanAcceptsTargetKey ==
    (/\ op = "extract_json_from_text"
     /\ DirectDecode(Normalized(raw_text)) = <<>>
     /\ QuoteRepairDecode(Normalized(raw_text)) = <<>>
     /\ out = ObjectScan(Normalized(raw_text)))
    => out = LastWithKey(Normalized(raw_text), TargetKey)

\* the direct decode yielded an object that holds the key of the target
DirectAccepted(text) ==
    /\ DirectDecode(text) # <<>>
    /\ DirectDecode(text)[1].t = "dict"
    /\ HasKey(DirectDecode(text)[1], TargetKey)

\* C31: the direct decode succeeds only when the normalized text decodes to
\* an object holding the key of the requested target; a bare number, string
\* or list, or an object without that key, is not accepted and the
\* extraction goes on to the later strategies, so a result handed back by
\* the direct decode always holds the key of the target.
C31_DirectDecodeNeedsTargetKey ==
    (/\ op = "extract_json_from_text"
     /\ DirectDecode(Normalized(raw_text)) # <<>>
     /\ out = DirectDecode(Normalized(raw_text)))
    => DirectAccepted(Normalized(raw_text))

\* a terminator other than FROM ends at position j (0 if none does)
PlainTerminatorEnd(text, j) ==
    IF Upper(text[j]) = "FROM" THEN 0 ELSE TerminatorEnd(text, j)

\* FROM at position j with, after blanks, a terminator or the end of the text
FromThenTerminator(text, j) ==
    /\ Upper(text[j]) = "FROM"
    /\ LET k == SkipBlanks(text, j + 1)
       IN  k > Len(text) \/ PlainTerminatorEnd(text, k) > 0

\* where the statement ends as stated: the first of FROM-then-terminator,
\* WHERE, GROUP BY, ORDER BY, LIMIT, a semicolon, or the end of the text
RECURSIVE StatedEnd(_, _)
StatedEnd(text, j) ==
    IF j > Len(text) THEN Len(text)
    ELSE IF FromThenTerminator(text, j) THEN j
    ELSE IF PlainTerminatorEnd(text, j) > 0 THEN PlainTerminatorEnd(text, j)
    ELSE StatedEnd(text, j + 1)

\* the statement as stated, from the first SELECT keyword on
RECURSIVE StatedStatement(_, _)
StatedStatement(text, i) ==
    IF i > Len(text) THEN <<>>
    ELSE IF Upper(text[i]) = "SELECT" /\ i < Len(text) /\ text[i + 1] = SP
         THEN RawStatement(SubSeq(text, i, StatedEnd(text, i + 2)))
    ELSE StatedStatement(text, i + 1)

\* C32: for the SqlStatement target, when no structured object is found and
\* the text holds a SELECT keyword, the recovered statement is the substring
\* from the SELECT keyword to the first of FROM followed by a terminator,
\* WHERE, GROUP BY, ORDER BY, LIMIT, a semicolon, or the end of the text,
\* its trailing semicolon stripped.
C32_RawStatementSpan ==
    (/\ op = "extract_json_from_text"
     /\ ~for_tables
     /\ DirectDecode(Normalized(raw_text)) = <<>>
     /\ QuoteRepairDecode(Normalized(raw_text)) = <<>>
     /\ ObjectScan(Normalized(raw_text)) = <<>>
     /\ SearchSelect(Normalized(raw_text), 1) # <<>>)
    => out[1] = Wrap(SqlKey, JStr(StatedStatement(Normalized(raw_text), 1)))

\* run() is entered
Entered == pc = "idle" /\ pc' = "loop"

C34_EntryDiscardsControl ==
    /\ [][ Entered => state' = RUNNING /\ at_check'.entry = state ]_vars
    /\ [][ (/\ pc = "loop"
            /\ at_check.entry \in { PAUSED, STOPPED }
            /\ state = RUNNING
            /\ pc' # "loop")
           => pc' = IF iteration >= max_iterations THEN "exit"
                    ELSE "check_paused" ]_vars

\* stop() was called before run(); the first iteration's attempt begins
C34_Witness ==
    /\ at_check.entry = STOPPED
    /\ state = RUNNING
    /\ iteration = 0
    /\ pc = "check_paused"
    /\ ~at_check.blocked

\* C35: the success of an attempt does not depend on validation: a non-empty
\* generated statement yields attempt success and the run stops, also when
\* validation reports syntax_valid = false; the loop never retries because
\* of a validation outcome.
C35_ValidationNeverFails ==
    /\ [](pc = "record" /\ sql_query # <<>> => Succeeded(attempt_result[1]))
    /\ [][ (pc = "record" /\ validation # <<>> /\ pc' # "record")
           => /\ pc' = "idle"
              /\ Succeeded(returned'[1])
              /\ returned'[1].validation = validation[1] ]_vars
    /\ [][ (pc = "record" /\ pc' = "loop") => validation = <<>> ]_vars

\* the run returned at once the statement validation had found invalid
C35_Witness ==
    /\ pc = "idle"
    /\ returned # <<>>
    /\ Succeeded(returned[1])
    /\ ~returned[1].validation.syntax_valid
    /\ returned[1].sql # <<>>
    /\ attempts = 1

\* C36: whenever SQLAgent.execute returns, the agent state is Completed
\* exactly when the returned success flag is true and Error exactly when it
\* is false; execute never returns leaving the state at Thinking or
\* Executing.
C36_StateMatchesOutcome ==
    pc = "record"
    => /\ Last(agent_trace) \in { COMPLETED, ERROR }
       /\ Last(agent_trace) = COMPLETED <=> Succeeded(attempt_result[1])
       /\ Last(agent_trace) = ERROR <=> ~Succeeded(attempt_result[1])

\* execute returned the failure of a collaborator, from the Thinking step
C36_Witness ==
    /\ pc = "record"
    /\ ~Succeeded(attempt_result[1])
    /\ attempt_result[1].error = CollaboratorFault
    /\ agent_trace = << EXECUTING, THINKING, ERROR >>
    /\ agent_state = ERROR

\* C37: whenever the loop of run() ends without the early return, no
\* recorded attempt result is successful, so the "last successful result"
\* branch after the loop is never taken and an exhausted or stopped run
\* always returns the structured failure.
C37_NoSuccessAfterLoop ==
    /\ [](pc = "exit" => \A i \in DOMAIN iteration_results :
                            ~Succeeded(iteration_results[i]))
    /\ [][ (pc = "exit" /\ pc' = "idle")
           => returned' = << RunFailure(iteration_results, execution_log) >> ]_vars

\* a run stopped after a failed attempt has left the loop
C37_Witness ==
    /\ pc = "exit"
    /\ state = STOPPED
    /\ iteration_results # <<>>
    /\ iteration < max_iterations

\* the execute_query records of an execution history
QueryRecords(hist) == SelectSeq(hist, LAMBDA r : r.tool = "execute_query")

\* C38: with execute = false the attempt never invokes the execution
\* collaborator: the returned result is null, executed is false, and no
\* execute_query ExecutionRecord is appended to the agent memory.
C38_NoExecutionUnlessAsked ==
    /\ []((pc # "idle" /\ ~execute)
          => /\ result = <<>>
             /\ \A i \in DOMAIN events :
                   events[i].call \notin { "conn.execute",
                                           "add_execution.execute_query" })
    /\ []((pc = "record" /\ ~execute /\ Succeeded(attempt_result[1]))
          => /\ attempt_result[1].result = <<>>
             /\ ~attempt_result[1].executed)
    /\ [][ (pc # "idle" /\ ~execute)
           => Len(QueryRecords(execution_history'))
                 <= Len(QueryRecords(execution_history)) ]_vars

\* a statement was generated and returned without being executed
C38_Witness ==
    /\ pc = "record"
    /\ ~execute
    /\ Succeeded(attempt_result[1])
    /\ attempt_result[1].sql # <<>>
    /\ ~attempt_result[1].executed
    /\ execution_history # <<>>
    /\ Last(execution_history).tool = "generate_sql"

\* C39: the iteration log inside a returned failure result is the runner's
\* live log, not a snapshot: a later run() or reset() that clears the
\* execution log also empties the log held by the failure result returned
\* before, and what the result shows is at all times what the runner's log
\* holds, whereas get_logs() returns an independent copy that stays as it
\* was taken.
C39_FailureLogIsLive ==
    /\ [](HoldsLog(returned) => returned[1].logs = execution_log)
    /\ [](HoldsLog(held) => held[1].logs = execution_log)
    /\ [][ op = "get_logs" => out' = out ]_vars

\* the second run() emptied the log inside the failure result of the first,
\* which had recorded attempts; the copy read in between kept its entries
C39_Witness ==
    /\ runs = 2
    /\ HoldsLog(held)
    /\ held[1].iterations > 0
    /\ held[1].logs = <<>>
    /\ op = "get_logs"
    /\ out[1] # <<>>

\* C40: every ExecutionRecord the agent appends carries success = true: the
\* execute_query record is written with success = true and an empty output
\* also when the execution collaborator raised, and no record with success =
\* false is ever written.
C40_RecordsAlwaysSucceed ==
    /\ [](\A i \in DOMAIN execution_history : execution_history[i].success)
    /\ [][ (pc = "run_sql" /\ pc' = "finish")
           => /\ execution_history' # <<>>
              /\ Last(execution_history').tool = "execute_query"
              /\ Last(execution_history').success
              /\ ExecutionRaised' => Last(execution_history').output = <<>> ]_vars

\* the execution raised and its record reads success = true, output empty
C40_Witness ==
    /\ pc = "finish"
    /\ ExecutionRaised
    /\ execution_history # <<>>
    /\ Last(execution_history).tool = "execute_query"
    /\ Last(execution_history).success
    /\ Last(execution_history).output = <<>>

====
